---- MODULE Spec2Model ----
(***************************************************************************)
(* Crowd intelligence engine of Spottr                                     *)
(* (backend/services/crowd_intelligence.py, driven by backend/main.py).    *)
(*                                                                         *)
(* Units.  The clock is in hours (time.time() / 3600).  A confidence is a  *)
(* number of tenths (0.9 is 9).  A position is a number of metres along    *)
(* one meridian, so that the haversine distance of two positions is the    *)
(* absolute difference of their metres.  A confidence_score is the exact   *)
(* fraction <<numerator, denominator>> the code divides.                   *)
(***************************************************************************)
EXTENDS Integers, Sequences, FiniteSets, TLC

VARIABLES
    hazards,        \* self.hazards: the dict's Hazard values, in insertion order
    user_feedback,  \* self.user_feedback: user_id -> sequence of hazard ids
    stats,          \* self.stats
    issued,         \* number of hazard ids report_hazard has generated so far
    now,            \* time.time(), in hours
    last,           \* the call that ran last: operation, branch taken, result
    lock,           \* self._lock.locked()
    tasks,          \* the call each task of the event loop is in, and where
    calls           \* number of calls the tasks have made so far

vars == <<hazards, user_feedback, stats, issued, now, last, lock, tasks, calls>>

\* The state the service owns.
store == <<hazards, user_feedback, stats>>
\* The lock and the tasks that contend for it.
coroutines == <<lock, tasks, calls>>

(***************************************************************************)
(* Configuration of the global service instance.                           *)
(***************************************************************************)
verification_threshold == 3
denial_threshold == 2
expiry_hours == 24
proximity_radius_meters == 50

(***************************************************************************)
(* Bounds of the model.                                                    *)
(***************************************************************************)
\* MaxWork bounds the calls that change the store: a stored report weighs 2,
\* an accepted feedback 1.
MaxWork == 6
MaxTime == 30
TickHours == 26
\* MaxCalls bounds the calls the tasks of the event loop make.
MaxCalls == 3
\* MaxCount bounds the feedback counts reputation_score is computed for.
MaxCount == 25
\* MaxCrowd bounds the users who give feedback on one hazard.
MaxCrowd == 5

\* One confidence is ConfScale tenths; the decay of the AI weight is in
\* 240ths (24 hours times the tenths of the 0.3 floor).
ConfScale == 10
DecayScale == 240

\* The reports of the model, <<class_name, confidence, metres>>: two of one
\* class exactly one radius apart, one of that class one metre further, and
\* one of another class where the first is; one with confidence 0.
Reports ==
    {<<"Pothole", 9, 0>>, <<"Pothole", 5, 50>>, <<"Pothole", 0, 101>>,
     <<"Road Crack", 9, 0>>}
BBoxes == {<<0, 0, 10, 10>>}
\* The ids report_hazard generates (uuid4 never repeats one).
HazardIds == {1, 2}
\* The users of the model, in the order in which they first contribute.
Users == <<"u1", "u2", "u3", "u4">>
\* The users who give feedback on one hazard, in the order in which they do.
Crowd == Users \o <<"u5", "u6", "u7">>
\* The tasks of the event loop that run handlers at the same time.
Tasks == {"t1", "t2"}
\* The searches of the model, <<metres, radius_meters, include_resolved>>:
\* from where the first report is and from one metre further, which is one
\* radius from the furthest report.
Searches ==
    {<<0, 100, FALSE>>, <<0, 100, TRUE>>, <<1, 100, FALSE>>, <<1, 100, TRUE>>}

\* Python's None, for an Optional value that is a tuple or an object.
None == <<>>
Location(metres) == <<metres, 0>>
\* Where a user who submits again may be by then: no position sent, where
\* the first report is, or 51 metres beyond the furthest report.
Positions == {None, Location(0), Location(152)}
\* Where each user stands and whether the client sends it: u2 and u4 send
\* the position 50 metres up the meridian, u1 and u3 send none.
user_locations(user_id) ==
    IF user_id \in {"u2", "u4"} THEN Location(50) ELSE None

UNVERIFIED == "unverified"
VERIFIED == "verified"
DISPUTED == "disputed"
RESOLVED == "resolved"
EXPIRED == "expired"
HazardStatus == {UNVERIFIED, VERIFIED, DISPUTED, RESOLVED, EXPIRED}

CONFIRM == "confirm"
DENY == "deny"
UPDATE == "update"
RESOLVE == "resolve"
FeedbackType == {CONFIRM, DENY, UPDATE, RESOLVE}

Abs(x) == IF x < 0 THEN -x ELSE x
Max(a, b) == IF a >= b THEN a ELSE b
Min(a, b) == IF a <= b THEN a ELSE b

\* _calculate_distance: haversine; on one meridian dlon = 0, so a is
\* sin(dlat/2)^2, c is |dlat| and radius * c is the arc between the two
\* latitudes, here their difference in metres.
_calculate_distance(loc1, loc2) == Abs(loc2[1] - loc1[1])

Contains(seq, x) == \E i \in 1..Len(seq) : seq[i] = x

\* The keys of self.hazards, and self.hazards.get(hazard_id).
hazard_ids == {hazards[i].hazard_id : i \in 1..Len(hazards)}
hazard_index(hazard_id) ==
    CHOOSE i \in 1..Len(hazards) : hazards[i].hazard_id = hazard_id
get(hazard_id) == hazards[hazard_index(hazard_id)]

\* _find_nearby_hazard without the test of the status.
find_nearby_hazard_any_status(location, class_name) ==
    LET matches == {i \in 1..Len(hazards) :
                      /\ hazards[i].class_name = class_name
                      /\ _calculate_distance(location, hazards[i].location)
                            <= proximity_radius_meters}
    IN  IF matches = {} THEN None
        ELSE <<hazards[CHOOSE i \in matches :
                          \A other \in matches : i <= other].hazard_id>>

\* _find_nearby_hazard with distance < radius for distance <= radius.
find_nearby_hazard_inside(location, class_name) ==
    LET matches == {i \in 1..Len(hazards) :
                      /\ hazards[i].class_name = class_name
                      /\ _calculate_distance(location, hazards[i].location)
                            < proximity_radius_meters
                      /\ hazards[i].status # RESOLVED}
    IN  IF matches = {} THEN None
        ELSE <<hazards[CHOOSE i \in matches :
                          \A other \in matches : i <= other].hazard_id>>

\* _find_nearby_hazard that passes over DISPUTED hazards as well.
find_nearby_hazard_undisputed(location, class_name) ==
    LET matches == {i \in 1..Len(hazards) :
                      /\ hazards[i].class_name = class_name
                      /\ _calculate_distance(location, hazards[i].location)
                            <= proximity_radius_meters
                      /\ hazards[i].status \notin {RESOLVED, DISPUTED}}
    IN  IF matches = {} THEN None
        ELSE <<hazards[CHOOSE i \in matches :
                          \A other \in matches : i <= other].hazard_id>>

\* _find_nearby_hazard: the first match in the dict's iteration order, as
\* the hazard's id in a one-element tuple, or None.
_find_nearby_hazard(location, class_name) ==
    LET matches == {i \in 1..Len(hazards) :
                      /\ hazards[i].class_name = class_name
                      /\ _calculate_distance(location, hazards[i].location)
                            <= proximity_radius_meters
                      /\ hazards[i].status # RESOLVED}
    IN  IF matches = {} THEN None
        ELSE <<hazards[CHOOSE i \in matches :
                          \A other \in matches : i <= other].hazard_id>>

severity_map(class_name) ==
    CASE class_name = "Pothole" -> "high"
      [] class_name = "Speed Breaker" -> "medium"
      [] class_name = "Debris" -> "critical"
      [] class_name = "Road Crack" -> "low"
      [] OTHER -> "medium"

severity_levels(severity) ==
    CASE severity = "low" -> 1
      [] severity = "medium" -> 2
      [] severity = "high" -> 3
      [] severity = "critical" -> 4

severity_names(level) ==
    CASE level = 1 -> "low"
      [] level = 2 -> "medium"
      [] level = 3 -> "high"
      [] level = 4 -> "critical"

\* confidence > 0.8 is confidence > 8 tenths.
_calculate_severity(class_name, confidence) ==
    LET base_severity == severity_map(class_name)
    IN  IF confidence > 8 /\ base_severity \in {"medium", "high"}
        THEN severity_names(Min(severity_levels(base_severity) + 1, 4))
        ELSE base_severity

\* Hazard with expires_at at the detection time, expiry_hours not added.
Hazard_expiring_now(hazard_id, class_name, confidence, location, bbox) ==
    [hazard_id |-> hazard_id,
     class_name |-> class_name,
     initial_confidence |-> confidence,
     location |-> location,
     bbox |-> bbox,
     detection_timestamp |-> now,
     status |-> UNVERIFIED,
     confirmations |-> 0,
     denials |-> 0,
     total_feedback |-> 0,
     confidence_score |-> <<confidence, ConfScale>>,
     last_updated |-> now,
     feedback_history |-> <<>>,
     verified_by |-> <<>>,
     severity |-> _calculate_severity(class_name, confidence),
     expires_at |-> now]

Hazard(hazard_id, class_name, confidence, location, bbox) ==
    [hazard_id |-> hazard_id,
     class_name |-> class_name,
     initial_confidence |-> confidence,
     location |-> location,
     bbox |-> bbox,
     detection_timestamp |-> now,
     status |-> UNVERIFIED,
     confirmations |-> 0,
     denials |-> 0,
     total_feedback |-> 0,
     confidence_score |-> <<confidence, ConfScale>>,
     last_updated |-> now,
     feedback_history |-> <<>>,
     verified_by |-> <<>>,
     severity |-> _calculate_severity(class_name, confidence),
     expires_at |-> now + expiry_hours]

UserFeedback(user_id, feedback_type, user_location, confidence, comment) ==
    [user_id |-> user_id,
     feedback_type |-> feedback_type,
     timestamp |-> now,
     location |-> user_location,
     confidence |-> confidence,
     comment |-> comment]

\* What the last call was and did: the operation, the hazard id it was given
\* (0 when it takes none), the branch it took, the hazards it returned (by
\* id, as the caller gets references to the stored objects), the number it
\* returned, and the objects it took out of the dict.
Called(op, hazard_id, branch, ret, count) ==
    [op |-> op, hazard_id |-> hazard_id, branch |-> branch, ret |-> ret,
     count |-> count, removed |-> <<>>]

\* The state a call leaves and what it returns.
Returned(hz, index, st, call) ==
    [hazards |-> hz, user_feedback |-> index, stats |-> st, last |-> call]

\* A call that runs from its first line to its return without another call
\* in between.
Runs(returned) ==
    /\ hazards' = returned.hazards
    /\ user_feedback' = returned.user_feedback
    /\ stats' = returned.stats
    /\ last' = returned.last

\* A task that is in no call.
Idle == [pc |-> "idle", op |-> "none", args |-> <<>>, hazard |-> None,
         serial |-> None, ticket |-> 0]

Init ==
    /\ hazards = <<>>
    /\ user_feedback = <<>>
    /\ stats = [total_hazards |-> 0, verified_hazards |-> 0,
                resolved_hazards |-> 0, disputed_hazards |-> 0,
                total_feedback |-> 0, unique_contributors |-> 0]
    /\ issued = 0
    /\ now = 0
    /\ last = Called("init", 0, "constructed", None, 0)
    /\ lock = FALSE
    /\ tasks = [t \in Tasks |-> Idle]
    /\ calls = 0

\* The work done so far.
Work == 2 * stats.total_hazards + stats.total_feedback

\* The clock advances between calls.
Tick ==
    /\ now + TickHours <= MaxTime
    /\ now' = now + TickHours
    /\ UNCHANGED <<hazards, user_feedback, stats, issued, last, coroutines>>

\* self.hazards[hazard_id] = hazard: a new key goes last, a key the dict
\* holds keeps its place and takes the new value.
store_hazard(hazard) ==
    IF hazard.hazard_id \in hazard_ids
    THEN [hazards EXCEPT ![hazard_index(hazard.hazard_id)] = hazard]
    ELSE Append(hazards, hazard)

\* add_hazard, from its first line to its return.
add_hazard_returns(hazard_id, class_name, confidence, location, bbox) ==
    LET existing == _find_nearby_hazard(location, class_name)
    IN  IF existing # None
        THEN Returned(hazards, user_feedback, stats,
                      Called("add_hazard", hazard_id, "existing", existing, 0))
        ELSE Returned(store_hazard(Hazard(hazard_id, class_name, confidence,
                                          location, bbox)),
                      user_feedback,
                      [stats EXCEPT !.total_hazards = @ + 1],
                      Called("add_hazard", hazard_id, "added", <<hazard_id>>, 0))

\* add_hazard, under the lock from its first line to its return.
add_hazard(hazard_id, class_name, confidence, location, bbox) ==
    Runs(add_hazard_returns(hazard_id, class_name, confidence, location, bbox))

\* report_hazard (POST /hazards): a fresh uuid names the report.
report_hazard ==
    /\ issued + 1 \in HazardIds
    /\ Work + 2 <= MaxWork
    /\ issued' = issued + 1
    /\ \E report \in Reports, bbox \in BBoxes :
            add_hazard(issued + 1, report[1], report[2], Location(report[3]), bbox)
    /\ UNCHANGED <<now, coroutines>>

\* The score _update_hazard_status computes: the weights of lines 277-288
\* and the quotient of lines 290-293, in units of 1/(ConfScale * DecayScale).
confirmation_weight(hazard) == hazard.confirmations * ConfScale * DecayScale
\* denial_weight without abs: denials * -0.8.
denial_weight_signed(hazard) == -(hazard.denials * 8 * DecayScale)

\* abs(denials * -0.8)
denial_weight(hazard) == hazard.denials * 8 * DecayScale
\* max(0.3, 1.0 - age_hours / 24), in 240ths
ai_weight(hazard) ==
    Max(72, DecayScale - 10 * (now - hazard.detection_timestamp))
\* total_weight without abs(denial_weight).
total_weight_undiluted(hazard) ==
    confirmation_weight(hazard) + hazard.initial_confidence * ai_weight(hazard)

total_weight(hazard) ==
    confirmation_weight(hazard) + denial_weight(hazard)
        + hazard.initial_confidence * ai_weight(hazard)
crowd_score(hazard) ==
    <<confirmation_weight(hazard) + hazard.initial_confidence * ai_weight(hazard),
      total_weight(hazard)>>

\* threshold_status with the verification rule before the denial rule.
threshold_status_verified_first(hazard) ==
    IF hazard.confirmations >= verification_threshold THEN VERIFIED
    ELSE IF hazard.denials >= denial_threshold
    THEN IF hazard.confirmations < hazard.denials THEN RESOLVED ELSE DISPUTED
    ELSE IF hazard.denials > 0 /\ hazard.confirmations > 0 THEN DISPUTED
    ELSE hazard.status

\* threshold_status with confirmations > verification_threshold.
threshold_status_late(hazard) ==
    IF hazard.denials >= denial_threshold
    THEN IF hazard.confirmations < hazard.denials THEN RESOLVED ELSE DISPUTED
    ELSE IF hazard.confirmations > verification_threshold THEN VERIFIED
    ELSE IF hazard.denials > 0 /\ hazard.confirmations > 0 THEN DISPUTED
    ELSE hazard.status

\* threshold_status with confirmations <= denials for confirmations < denials.
threshold_status_tie(hazard) ==
    IF hazard.denials >= denial_threshold
    THEN IF hazard.confirmations <= hazard.denials THEN RESOLVED ELSE DISPUTED
    ELSE IF hazard.confirmations >= verification_threshold THEN VERIFIED
    ELSE IF hazard.denials > 0 /\ hazard.confirmations > 0 THEN DISPUTED
    ELSE hazard.status

\* The status the threshold rules of lines 302-318 assign.
threshold_status(hazard) ==
    IF hazard.denials >= denial_threshold
    THEN IF hazard.confirmations < hazard.denials THEN RESOLVED ELSE DISPUTED
    ELSE IF hazard.confirmations >= verification_threshold THEN VERIFIED
    ELSE IF hazard.denials > 0 /\ hazard.confirmations > 0 THEN DISPUTED
    ELSE hazard.status

\* threshold_stats counting a VERIFIED hazard at every recomputation.
threshold_stats_level(hazard, st) ==
    LET old_status == hazard.status
    IN  IF hazard.denials >= denial_threshold
        THEN IF hazard.confirmations < hazard.denials
             THEN [st EXCEPT !.resolved_hazards = @ + 1]
             ELSE [st EXCEPT !.disputed_hazards = @ + 1]
        ELSE IF hazard.confirmations >= verification_threshold
        THEN [st EXCEPT !.verified_hazards = @ + 1]
        ELSE IF hazard.denials > 0 /\ hazard.confirmations > 0
        THEN IF old_status # DISPUTED
             THEN [st EXCEPT !.disputed_hazards = @ + 1]
             ELSE st
        ELSE st

\* The counters the threshold rules of lines 302-318 increment.
threshold_stats(hazard, st) ==
    LET old_status == hazard.status
    IN  IF hazard.denials >= denial_threshold
        THEN IF hazard.confirmations < hazard.denials
             THEN [st EXCEPT !.resolved_hazards = @ + 1]
             ELSE [st EXCEPT !.disputed_hazards = @ + 1]
        ELSE IF hazard.confirmations >= verification_threshold
        THEN IF old_status # VERIFIED
             THEN [st EXCEPT !.verified_hazards = @ + 1]
             ELSE st
        ELSE IF hazard.denials > 0 /\ hazard.confirmations > 0
        THEN IF old_status # DISPUTED
             THEN [st EXCEPT !.disputed_hazards = @ + 1]
             ELSE st
        ELSE st

\* expiry_check without the test of confirmations.
expiry_check_whatever(hazard, status) ==
    IF now > hazard.expires_at THEN EXPIRED ELSE status

\* Lines 320-323: past expires_at with no confirmation.
expiry_check(hazard, status) ==
    IF now > hazard.expires_at /\ hazard.confirmations = 0
    THEN EXPIRED
    ELSE status

\* _update_hazard_status: the hazard and the stats it leaves, and whether it
\* raised.  The quotient of line 290 raises ZeroDivisionError when
\* total_weight is 0, before anything is assigned.
_update_hazard_status(hazard, st) ==
    IF hazard.total_feedback > 0 /\ total_weight(hazard) = 0
    THEN [raised |-> TRUE, hazard |-> hazard, stats |-> st]
    ELSE LET scored == [hazard EXCEPT !.confidence_score =
                          IF hazard.total_feedback > 0
                          THEN crowd_score(hazard)
                          ELSE <<hazard.initial_confidence, ConfScale>>]
         IN  [raised |-> FALSE,
              hazard |-> [scored EXCEPT !.status =
                            expiry_check(scored, threshold_status(scored))],
              stats |-> threshold_stats(scored, st)]

\* record_feedback without total_feedback += 1.
record_feedback_uncounted(hazard, feedback) ==
    LET appended == [hazard EXCEPT
                       !.feedback_history = Append(@, feedback),
                       !.verified_by = Append(@, feedback.user_id),
                       !.last_updated = now]
    IN  IF feedback.feedback_type = CONFIRM
        THEN [appended EXCEPT !.confirmations = @ + 1]
        ELSE IF feedback.feedback_type \in {DENY, RESOLVE}
        THEN [appended EXCEPT !.denials = @ + 1]
        ELSE appended

\* record_feedback where RESOLVE counts as no denial.
record_feedback_resolve_uncounted(hazard, feedback) ==
    LET appended == [hazard EXCEPT
                       !.feedback_history = Append(@, feedback),
                       !.verified_by = Append(@, feedback.user_id),
                       !.total_feedback = @ + 1,
                       !.last_updated = now]
    IN  IF feedback.feedback_type = CONFIRM
        THEN [appended EXCEPT !.confirmations = @ + 1]
        ELSE IF feedback.feedback_type = DENY
        THEN [appended EXCEPT !.denials = @ + 1]
        ELSE appended

\* record_feedback where a CONFIRM renews expires_at.
record_feedback_renewing(hazard, feedback) ==
    LET appended == [hazard EXCEPT
                       !.feedback_history = Append(@, feedback),
                       !.verified_by = Append(@, feedback.user_id),
                       !.total_feedback = @ + 1,
                       !.last_updated = now]
    IN  IF feedback.feedback_type = CONFIRM
        THEN [appended EXCEPT !.confirmations = @ + 1,
                              !.expires_at = now + expiry_hours]
        ELSE IF feedback.feedback_type \in {DENY, RESOLVE}
        THEN [appended EXCEPT !.denials = @ + 1]
        ELSE appended

\* Lines 243-259: the feedback is recorded on the hazard.
record_feedback(hazard, feedback) ==
    LET appended == [hazard EXCEPT
                       !.feedback_history = Append(@, feedback),
                       !.verified_by = Append(@, feedback.user_id),
                       !.total_feedback = @ + 1,
                       !.last_updated = now]
    IN  IF feedback.feedback_type = CONFIRM
        THEN [appended EXCEPT !.confirmations = @ + 1]
        ELSE IF feedback.feedback_type \in {DENY, RESOLVE}
        THEN [appended EXCEPT !.denials = @ + 1]
        ELSE appended

\* Lines 261-265: the user index and the global counters.
track_user_feedback(index, user_id, hazard_id) ==
    IF user_id \in DOMAIN index
    THEN [index EXCEPT ![user_id] = Append(@, hazard_id)]
    ELSE index @@ (user_id :> <<hazard_id>>)

\* track_stats counting a contributor at every feedback.
track_stats_every_feedback(st, user_id) ==
    [st EXCEPT !.unique_contributors = @ + 1,
               !.total_feedback = @ + 1]

track_stats(st, user_id) ==
    [st EXCEPT !.unique_contributors =
                  IF user_id \notin DOMAIN user_feedback THEN @ + 1 ELSE @,
               !.total_feedback = @ + 1]

\* too_far with distance >= radius for distance > radius.
too_far_at_radius(hazard, user_location) ==
    /\ user_location # None
    /\ _calculate_distance(hazard.location, user_location)
          >= proximity_radius_meters

\* Lines 219-226: a location was sent and it is further than the radius.
too_far(hazard, user_location) ==
    /\ user_location # None
    /\ _calculate_distance(hazard.location, user_location)
          > proximity_radius_meters

\* already_provided looking at the last contributor only.
already_provided_last(hazard, user_id) ==
    /\ hazard.verified_by # <<>>
    /\ hazard.verified_by[Len(hazard.verified_by)] = user_id

\* Lines 228-231: user_id in hazard.verified_by.
already_provided(hazard, user_id) == Contains(hazard.verified_by, user_id)

\* submit_feedback_branch with the duplicate check before the proximity
\* check.
submit_feedback_branch_duplicate_first(hazard_id, user_id, user_location) ==
    IF hazard_id \notin hazard_ids THEN "not_found"
    ELSE IF already_provided(get(hazard_id), user_id) THEN "already"
    ELSE IF too_far(get(hazard_id), user_location) THEN "too_far"
    ELSE "accepted"

\* Lines 214-231: the branch that returns before anything is recorded, or
\* "accepted".
submit_feedback_branch(hazard_id, user_id, user_location) ==
    IF hazard_id \notin hazard_ids THEN "not_found"
    ELSE IF too_far(get(hazard_id), user_location) THEN "too_far"
    ELSE IF already_provided(get(hazard_id), user_id) THEN "already"
    ELSE "accepted"

\* What submit_feedback returns on a branch: None, or the hazard.
submit_feedback_result(hazard_id, branch) ==
    Called("submit_feedback", hazard_id, branch,
           IF branch \in {"already", "accepted"} THEN <<hazard_id>> ELSE None, 0)

\* submit_feedback, from its first line to its return or to the exception
\* that leaves it.
submit_feedback_returns(hazard_id, user_id, feedback_type, user_location, confidence, comment) ==
    LET branch == submit_feedback_branch(hazard_id, user_id, user_location)
    IN  IF branch # "accepted"
        THEN Returned(hazards, user_feedback, stats,
                      submit_feedback_result(hazard_id, branch))
        ELSE LET feedback == UserFeedback(user_id, feedback_type,
                                          user_location, confidence, comment)
                 recorded == record_feedback(get(hazard_id), feedback)
                 updated == _update_hazard_status(
                                recorded, track_stats(stats, user_id))
             IN  Returned([hazards EXCEPT
                             ![hazard_index(hazard_id)] = updated.hazard],
                          track_user_feedback(user_feedback, user_id, hazard_id),
                          updated.stats,
                          submit_feedback_result(
                              hazard_id,
                              IF updated.raised THEN "raised" ELSE "accepted"))

\* submit_feedback, under the lock from its first line to its return or to
\* the exception that leaves it.
submit_feedback(hazard_id, user_id, feedback_type, user_location, confidence, comment) ==
    /\ submit_feedback_branch(hazard_id, user_id, user_location) = "accepted"
          => Work + 1 <= MaxWork
    /\ Runs(submit_feedback_returns(hazard_id, user_id, feedback_type,
                                    user_location, confidence, comment))

\* User ids are opaque: the caller is a user who has contributed before, or
\* the next user who has not.
Callers ==
    {Users[i] : i \in {j \in 1..Len(Users) :
                         \A k \in 1..(j - 1) : Users[k] \in DOMAIN user_feedback}}

\* submit_hazard_feedback (POST /hazards/{hazard_id}/feedback).
submit_hazard_feedback ==
    /\ \E hazard_id \in HazardIds, user_id \in Callers,
          feedback_type \in FeedbackType :
            submit_feedback(hazard_id, user_id, feedback_type,
                            user_locations(user_id), ConfScale, None)
    /\ UNCHANGED <<issued, now, coroutines>>

\* is_expired without the test of confirmations.
is_expired_whatever(hazard) == now > hazard.expires_at

\* is_expired for hazards that are still UNVERIFIED only.
is_expired_unverified(hazard) ==
    now > hazard.expires_at /\ hazard.confirmations = 0
        /\ hazard.status = UNVERIFIED

\* Lines 435-439: past expires_at with no confirmation.
is_expired(hazard) ==
    now > hazard.expires_at /\ hazard.confirmations = 0

expired_ids ==
    {hazards[i].hazard_id : i \in {j \in 1..Len(hazards) : is_expired(hazards[j])}}

\* The hazards of seq whose id is in ids (keep) or is not (drop), in order.
RECURSIVE select(_, _, _)
select(seq, ids, keep) ==
    IF seq = <<>> THEN <<>>
    ELSE IF (Head(seq).hazard_id \in ids) = keep
    THEN <<Head(seq)>> \o select(Tail(seq), ids, keep)
    ELSE select(Tail(seq), ids, keep)

\* cleanup_expired returning the number of hazards it leaves.
cleanup_expired_counting_left ==
    Returned(select(hazards, expired_ids, FALSE), user_feedback, stats,
             [Called("cleanup_expired", 0, "swept", None,
                     Len(hazards) - Cardinality(expired_ids))
                EXCEPT !.removed =
                  [i \in 1..Cardinality(expired_ids) |->
                     [select(hazards, expired_ids, TRUE)[i]
                        EXCEPT !.status = EXPIRED]]])

\* cleanup_expired taking the hazards it removes off total_hazards.
cleanup_expired_uncounting ==
    Returned(select(hazards, expired_ids, FALSE), user_feedback,
             [stats EXCEPT !.total_hazards = @ - Cardinality(expired_ids)],
             [Called("cleanup_expired", 0, "swept", None,
                     Cardinality(expired_ids))
                EXCEPT !.removed =
                  [i \in 1..Cardinality(expired_ids) |->
                     [select(hazards, expired_ids, TRUE)[i]
                        EXCEPT !.status = EXPIRED]]])

\* cleanup_expired, from its first line to its return: line 440 marks each
\* expired hazard EXPIRED; lines 443-444 delete them from the dict, where the
\* others keep their order.
cleanup_expired_returns ==
    Returned(select(hazards, expired_ids, FALSE), user_feedback, stats,
             [Called("cleanup_expired", 0, "swept", None,
                     Cardinality(expired_ids))
                EXCEPT !.removed =
                  [i \in 1..Cardinality(expired_ids) |->
                     [select(hazards, expired_ids, TRUE)[i]
                        EXCEPT !.status = EXPIRED]]])

\* cleanup_expired, under the lock from its first line to its return.
cleanup_expired ==
    /\ Runs(cleanup_expired_returns)
    /\ UNCHANGED <<issued, now, coroutines>>

Next ==
    \/ Tick
    \/ report_hazard
    \/ submit_hazard_feedback
    \/ cleanup_expired

Spec == Init /\ [][Next]_vars

(***************************************************************************)
(* The lock-free readers and the reads under the lock.                     *)
(***************************************************************************)
\* score_above with a < b for a > b.
score_below(a, b) == a[1] * b[2] < b[1] * a[2]

\* a > b for two fractions of positive denominator.
score_above(a, b) == a[1] * b[2] > b[1] * a[2]

\* list.sort(key = confidence_score, reverse = True): stable, so hazards of
\* one score keep the order they had.
RECURSIVE insert_by_score(_, _)
insert_by_score(sorted, hazard) ==
    IF sorted = <<>> THEN <<hazard>>
    ELSE IF score_above(hazard.confidence_score, Head(sorted).confidence_score)
    THEN <<hazard>> \o sorted
    ELSE <<Head(sorted)>> \o insert_by_score(Tail(sorted), hazard)

RECURSIVE sort_by_score(_)
sort_by_score(seq) ==
    IF seq = <<>> THEN <<>>
    ELSE insert_by_score(sort_by_score(SubSeq(seq, 1, Len(seq) - 1)),
                         seq[Len(seq)])

\* nearby with distance < radius_meters for distance <= radius_meters.
RECURSIVE nearby_inside(_, _, _, _)
nearby_inside(seq, location, radius_meters, include_resolved) ==
    IF seq = <<>> THEN <<>>
    ELSE LET rest == nearby_inside(Tail(seq), location, radius_meters,
                                   include_resolved)
         IN  IF ~include_resolved /\ Head(seq).status \in {RESOLVED, EXPIRED}
             THEN rest
             ELSE IF _calculate_distance(location, Head(seq).location)
                        < radius_meters
             THEN <<Head(seq)>> \o rest
             ELSE rest

\* Lines 346-357: the hazards of the dict, in its order, that the search
\* keeps.
RECURSIVE nearby(_, _, _, _)
nearby(seq, location, radius_meters, include_resolved) ==
    IF seq = <<>> THEN <<>>
    ELSE LET rest == nearby(Tail(seq), location, radius_meters, include_resolved)
         IN  IF ~include_resolved /\ Head(seq).status \in {RESOLVED, EXPIRED}
             THEN rest
             ELSE IF _calculate_distance(location, Head(seq).location)
                        <= radius_meters
             THEN <<Head(seq)>> \o rest
             ELSE rest

\* get_hazards_nearby, from its first line to its return.
get_hazards_nearby_returns(location, radius_meters, include_resolved) ==
    LET found == sort_by_score(
                     nearby(hazards, location, radius_meters, include_resolved))
    IN  Returned(hazards, user_feedback, stats,
                 Called("get_hazards_nearby", 0, "searched",
                        [i \in 1..Len(found) |-> found[i].hazard_id],
                        Len(found)))

\* get_hazard, from its first line to its return.
get_hazard_returns(hazard_id) ==
    Returned(hazards, user_feedback, stats,
             IF hazard_id \in hazard_ids
             THEN Called("get_hazard", hazard_id, "found", <<hazard_id>>, 0)
             ELSE Called("get_hazard", hazard_id, "not_found", None, 0))

\* get_stats: what it returns, the counters (in last.removed) and the size
\* of the dict (in last.count) as they are when it runs.
get_stats_returns ==
    [Called("get_stats", 0, "read", None, Len(hazards))
       EXCEPT !.removed = <<stats>>]

\* reputation_score without the cap of 100.
reputation_score_uncapped(feedback_count) == feedback_count * 5

\* Line 465: min(100, feedback_count * 5).
reputation_score(feedback_count) == Min(100, feedback_count * 5)

\* get_user_contribution: what it returns (the dict in last.removed) from
\* the user's list in the index as it is when it runs.
get_user_contribution_returns(user_id) ==
    LET contributed == IF user_id \in DOMAIN user_feedback
                       THEN user_feedback[user_id] ELSE <<>>
    IN  [Called("get_user_contribution", 0, user_id, contributed,
                Len(contributed))
           EXCEPT !.removed =
             <<[user_id |-> user_id,
                total_feedback |-> Len(contributed),
                reputation_score |-> reputation_score(Len(contributed)),
                hazards_contributed |-> contributed]>>]

\* get_stats takes no lock.
get_stats ==
    /\ calls < MaxCalls
    /\ calls' = calls + 1
    /\ last' = get_stats_returns
    /\ UNCHANGED <<hazards, user_feedback, stats, issued, now, lock, tasks>>

\* get_user_contribution takes no lock.
get_user_contribution ==
    /\ calls < MaxCalls
    /\ calls' = calls + 1
    /\ \E i \in 1..Len(Users) : last' = get_user_contribution_returns(Users[i])
    /\ UNCHANGED <<hazards, user_feedback, stats, issued, now, lock, tasks>>

(***************************************************************************)
(* The calls as tasks of one event loop.  A handler is a coroutine: it can *)
(* be suspended where it awaits (the lock at the head of a method, the     *)
(* helper coroutines inside add_hazard and submit_feedback), and another   *)
(* task runs meanwhile.  A call reads the clock once.                      *)
(***************************************************************************)
Inside(t) == tasks[t].pc \notin {"idle", "lock"}

\* asyncio.Lock.acquire goes on when the lock is not held.
acquirable_always(locked) == TRUE

acquirable(locked) == ~locked

\* The place of the last task in the queue for the lock (the deque _waiters
\* of asyncio.Lock), 0 when no task is in it.
last_ticket ==
    LET waiting == {tasks[u].ticket : u \in {v \in Tasks : tasks[v].pc = "lock"}}
    IN  IF waiting = {} THEN 0
        ELSE CHOOSE m \in waiting : \A n \in waiting : m >= n

\* The handler calls the method: the task is at its `async with self._lock`,
\* behind the tasks that are there already.
Calls(t, op, args) ==
    /\ tasks[t].pc = "idle"
    /\ calls < MaxCalls
    /\ calls' = calls + 1
    /\ tasks' = [tasks EXCEPT ![t] = [Idle EXCEPT !.pc = "lock", !.op = op,
                                                   !.args = args,
                                                   !.ticket = last_ticket + 1]]

report_hazard_called(t) ==
    /\ issued + 1 \in HazardIds
    /\ issued' = issued + 1
    /\ \E report \in Reports, bbox \in BBoxes :
          Calls(t, "add_hazard",
                <<issued + 1, report[1], report[2], Location(report[3]), bbox>>)
    /\ UNCHANGED <<hazards, user_feedback, stats, now, last, lock>>

submit_hazard_feedback_called(t) ==
    /\ \E hazard_id \in HazardIds, user_id \in Callers,
          feedback_type \in FeedbackType :
            Calls(t, "submit_feedback",
                  <<hazard_id, user_id, feedback_type,
                    user_locations(user_id), ConfScale, None>>)
    /\ UNCHANGED <<hazards, user_feedback, stats, issued, now, last, lock>>

cleanup_expired_called(t) ==
    /\ Calls(t, "cleanup_expired", <<>>)
    /\ UNCHANGED <<hazards, user_feedback, stats, issued, now, last, lock>>

get_nearby_hazards_called(t) ==
    /\ \E search \in Searches :
          Calls(t, "get_hazards_nearby",
                <<Location(search[1]), search[2], search[3]>>)
    /\ UNCHANGED <<hazards, user_feedback, stats, issued, now, last, lock>>

get_hazard_details_called(t) ==
    /\ \E hazard_id \in HazardIds : Calls(t, "get_hazard", <<hazard_id>>)
    /\ UNCHANGED <<hazards, user_feedback, stats, issued, now, last, lock>>

\* What the call of a task returns when it runs alone from the state it is
\* in.
serial(op, args) ==
    CASE op = "add_hazard" ->
           add_hazard_returns(args[1], args[2], args[3], args[4], args[5])
      [] op = "submit_feedback" ->
           submit_feedback_returns(args[1], args[2], args[3], args[4],
                                   args[5], args[6])
      [] op = "cleanup_expired" -> cleanup_expired_returns
      [] op = "get_hazards_nearby" ->
           get_hazards_nearby_returns(args[1], args[2], args[3])
      [] op = "get_hazard" -> get_hazard_returns(args[1])

\* The first line of each method under the lock.
body(op) ==
    CASE op = "add_hazard" -> "find"
      [] op = "submit_feedback" -> "record"
      [] op = "cleanup_expired" -> "sweep"
      [] op = "get_hazards_nearby" -> "search"
      [] op = "get_hazard" -> "get"

\* acquire where cleanup_expired goes on whether the lock is held or not.
acquire_sweep_unlocked(t) ==
    /\ tasks[t].pc = "lock"
    /\ acquirable(lock) \/ tasks[t].op = "cleanup_expired"
    /\ lock' = TRUE
    /\ tasks' = [u \in Tasks |->
                   IF u = t
                   THEN [tasks[t] EXCEPT
                           !.pc = body(tasks[t].op),
                           !.serial = serial(tasks[t].op, tasks[t].args),
                           !.ticket = 0]
                   ELSE IF tasks[u].ticket > tasks[t].ticket
                   THEN [tasks[u] EXCEPT !.ticket = @ - 1]
                   ELSE tasks[u]]
    /\ UNCHANGED <<hazards, user_feedback, stats, issued, now, last, calls>>

\* async with self._lock, entered.
acquire(t) ==
    /\ tasks[t].pc = "lock"
    /\ acquirable(lock)
    /\ lock' = TRUE
    /\ tasks' = [u \in Tasks |->
                   IF u = t
                   THEN [tasks[t] EXCEPT
                           !.pc = body(tasks[t].op),
                           !.serial = serial(tasks[t].op, tasks[t].args),
                           !.ticket = 0]
                   ELSE IF tasks[u].ticket > tasks[t].ticket
                   THEN [tasks[u] EXCEPT !.ticket = @ - 1]
                   ELSE tasks[u]]
    /\ UNCHANGED <<hazards, user_feedback, stats, issued, now, last, calls>>

\* release at the end of the method only: an early return or an exception
\* keeps the lock.
release_at_end(t) ==
    /\ lock' = (last'.branch \in {"not_found", "too_far", "already",
                                  "existing", "raised"})
    /\ tasks' = [tasks EXCEPT ![t] = Idle]
    /\ UNCHANGED <<issued, now, calls>>

\* async with self._lock, left by a return or by an exception.
release(t) ==
    /\ lock' = FALSE
    /\ tasks' = [tasks EXCEPT ![t] = Idle]
    /\ UNCHANGED <<issued, now, calls>>

\* Lines 163-166: existing = await self._find_nearby_hazard(...), and the
\* return of the hazard found.
add_hazard_find(t) ==
    /\ tasks[t].pc = "find"
    /\ LET args == tasks[t].args
           existing == _find_nearby_hazard(args[4], args[2])
       IN  IF existing # None
           THEN /\ last' = Called("add_hazard", args[1], "existing", existing, 0)
                /\ UNCHANGED <<hazards, user_feedback, stats>>
                /\ release(t)
           ELSE /\ tasks' = [tasks EXCEPT ![t].pc = "store"]
                /\ UNCHANGED <<hazards, user_feedback, stats, issued, now, last,
                               lock, calls>>

\* Lines 169-188: the hazard is made and stored.
add_hazard_store(t) ==
    /\ tasks[t].pc = "store"
    /\ LET args == tasks[t].args
       IN  /\ hazards' = store_hazard(
                 Hazard(args[1], args[2], args[3], args[4], args[5]))
           /\ stats' = [stats EXCEPT !.total_hazards = @ + 1]
           /\ last' = Called("add_hazard", args[1], "added", <<args[1]>>, 0)
    /\ UNCHANGED user_feedback
    /\ release(t)

\* Lines 214-265: the returns before anything is recorded, or the feedback
\* recorded on the hazard, in the index and in the counters.
submit_feedback_record(t) ==
    /\ tasks[t].pc = "record"
    /\ LET args == tasks[t].args
           branch == submit_feedback_branch(args[1], args[2], args[4])
       IN  IF branch # "accepted"
           THEN /\ last' = submit_feedback_result(args[1], branch)
                /\ UNCHANGED <<hazards, user_feedback, stats>>
                /\ release(t)
           ELSE LET recorded ==
                      record_feedback(
                          get(args[1]),
                          UserFeedback(args[2], args[3], args[4], args[5], args[6]))
                IN  /\ hazards' = [hazards EXCEPT
                                     ![hazard_index(args[1])] = recorded]
                    /\ user_feedback' =
                          track_user_feedback(user_feedback, args[2], args[1])
                    /\ stats' = track_stats(stats, args[2])
                    /\ tasks' = [tasks EXCEPT ![t].pc = "update",
                                              ![t].hazard = recorded]
                    /\ UNCHANGED <<issued, now, last, lock, calls>>

\* Lines 268-270: await self._update_hazard_status(hazard) on the object the
\* task holds, which is the dict's unless a sweep has deleted it, and the
\* return.
submit_feedback_update(t) ==
    /\ tasks[t].pc = "update"
    /\ LET hazard_id == tasks[t].args[1]
           held == hazard_id \in hazard_ids
           updated == _update_hazard_status(
                          IF held THEN get(hazard_id) ELSE tasks[t].hazard,
                          stats)
       IN  /\ hazards' = IF held
                         THEN [hazards EXCEPT
                                 ![hazard_index(hazard_id)] = updated.hazard]
                         ELSE hazards
           /\ stats' = updated.stats
           /\ last' = submit_feedback_result(
                          hazard_id,
                          IF updated.raised THEN "raised" ELSE "accepted")
    /\ UNCHANGED user_feedback
    /\ release(t)

\* Lines 431-449.
cleanup_expired_sweep(t) ==
    /\ tasks[t].pc = "sweep"
    /\ Runs(cleanup_expired_returns)
    /\ release(t)

\* Lines 345-362.
get_hazards_nearby_search(t) ==
    /\ tasks[t].pc = "search"
    /\ Runs(get_hazards_nearby_returns(tasks[t].args[1], tasks[t].args[2],
                                       tasks[t].args[3]))
    /\ release(t)

\* Lines 366-367.
get_hazard_get(t) ==
    /\ tasks[t].pc = "get"
    /\ Runs(get_hazard_returns(tasks[t].args[1]))
    /\ release(t)

\* The clock advances between calls.
TickBetween ==
    /\ \A t \in Tasks : ~Inside(t)
    /\ Tick

NextConc ==
    \/ TickBetween
    \/ get_stats
    \/ get_user_contribution
    \/ \E t \in Tasks : report_hazard_called(t)
    \/ \E t \in Tasks : submit_hazard_feedback_called(t)
    \/ \E t \in Tasks : cleanup_expired_called(t)
    \/ \E t \in Tasks : get_nearby_hazards_called(t)
    \/ \E t \in Tasks : get_hazard_details_called(t)
    \/ \E t \in Tasks : acquire(t)
    \/ \E t \in Tasks : add_hazard_find(t)
    \/ \E t \in Tasks : add_hazard_store(t)
    \/ \E t \in Tasks : submit_feedback_record(t)
    \/ \E t \in Tasks : submit_feedback_update(t)
    \/ \E t \in Tasks : cleanup_expired_sweep(t)
    \/ \E t \in Tasks : get_hazards_nearby_search(t)
    \/ \E t \in Tasks : get_hazard_get(t)

SpecConc == Init /\ [][NextConc]_vars

(***************************************************************************)
(* The tasks of the event loop with the lock handed on in order:           *)
(* asyncio.Lock wakes the tasks that wait for it in the order in which     *)
(* they came, and a task that comes while others wait goes behind them.    *)
(***************************************************************************)
\* in_turn whatever the queue.
in_turn_whenever(t) == TRUE

\* No task has waited for the lock for longer than t.
in_turn(t) ==
    \A u \in Tasks \ {t} :
        tasks[u].pc = "lock" => tasks[u].ticket > tasks[t].ticket

acquire_in_turn(t) ==
    /\ in_turn(t)
    /\ acquire(t)

NextFifo ==
    \/ TickBetween
    \/ get_stats
    \/ get_user_contribution
    \/ \E t \in Tasks : report_hazard_called(t)
    \/ \E t \in Tasks : submit_hazard_feedback_called(t)
    \/ \E t \in Tasks : cleanup_expired_called(t)
    \/ \E t \in Tasks : get_nearby_hazards_called(t)
    \/ \E t \in Tasks : get_hazard_details_called(t)
    \/ \E t \in Tasks : acquire_in_turn(t)
    \/ \E t \in Tasks : add_hazard_find(t)
    \/ \E t \in Tasks : add_hazard_store(t)
    \/ \E t \in Tasks : submit_feedback_record(t)
    \/ \E t \in Tasks : submit_feedback_update(t)
    \/ \E t \in Tasks : cleanup_expired_sweep(t)
    \/ \E t \in Tasks : get_hazards_nearby_search(t)
    \/ \E t \in Tasks : get_hazard_get(t)

SpecFifo == Init /\ [][NextFifo]_vars

\* What task t does next once it has been called: it takes the lock when it
\* is its turn, or goes on under the lock.
advance(t) ==
    \/ acquire_in_turn(t)
    \/ add_hazard_find(t)
    \/ add_hazard_store(t)
    \/ submit_feedback_record(t)
    \/ submit_feedback_update(t)
    \/ cleanup_expired_sweep(t)
    \/ get_hazards_nearby_search(t)
    \/ get_hazard_get(t)

\* The event loop runs every task that is ready.
FairFifo == SpecFifo /\ \A t \in Tasks : WF_vars(advance(t))

(***************************************************************************)
(* Cancellation.  CancelledError is thrown into a task where it is         *)
(* suspended, and a task is suspended where what it awaits yields to the   *)
(* event loop.                                                             *)
(***************************************************************************)
\* What the task awaits at each position of a method: the lock at line 161
\* (213, 431), _find_nearby_hazard at line 163 (before and after it nothing
\* is stored yet), _update_hazard_status at line 268.
awaited(pc) ==
    CASE pc = "lock" -> "acquire"
      [] pc \in {"find", "store"} -> "_find_nearby_hazard"
      [] pc = "update" -> "_update_hazard_status"
      [] OTHER -> "none"

\* yields with every await a suspension.
yields_at_every_await(awaitable, locked) == awaitable # "none"

\* asyncio.Lock.acquire waits on a future when the lock is held; the two
\* coroutines of the service hold no await (lines 369-382, 272-326) and run
\* to their return without yielding.
yields(awaitable, locked) == awaitable = "acquire" /\ locked

\* The caller is cancelled: CancelledError leaves the method, and the
\* `async with` it may be in releases the lock.
cancel(t) ==
    /\ yields(awaited(tasks[t].pc), lock)
    /\ tasks' = [tasks EXCEPT ![t] = Idle]
    /\ lock' = IF Inside(t) THEN FALSE ELSE lock
    /\ last' = Called(tasks[t].op, 0, "cancelled", None, 0)
    /\ UNCHANGED <<hazards, user_feedback, stats, issued, now, calls>>

NextCancel ==
    \/ NextConc
    \/ \E t \in Tasks : cancel(t)

SpecCancel == Init /\ [][NextCancel]_vars

(***************************************************************************)
(* The calls one after the other, the reads under the lock among them.     *)
(***************************************************************************)
\* get_nearby_hazards (GET /hazards/nearby).
get_nearby_hazards ==
    /\ \E search \in Searches :
          Runs(get_hazards_nearby_returns(Location(search[1]), search[2],
                                          search[3]))
    /\ UNCHANGED <<issued, now, coroutines>>

\* get_hazard_details (GET /hazards/{hazard_id}).
get_hazard_details ==
    /\ \E hazard_id \in HazardIds : Runs(get_hazard_returns(hazard_id))
    /\ UNCHANGED <<issued, now, coroutines>>

NextRead ==
    \/ Tick
    \/ report_hazard
    \/ submit_hazard_feedback
    \/ cleanup_expired
    \/ get_nearby_hazards
    \/ get_hazard_details

SpecRead == Init /\ [][NextRead]_vars

(***************************************************************************)
(* The calls one after the other, the reads that take no lock among them.  *)
(***************************************************************************)
\* get_crowd_stats (GET /crowd/stats).
get_crowd_stats ==
    /\ last' = get_stats_returns
    /\ UNCHANGED <<hazards, user_feedback, stats, issued, now, coroutines>>

\* get_user_contribution (GET /users/{user_id}/contribution), for a user
\* who has contributed or for the next who has not.
user_contribution ==
    /\ \E user_id \in Callers : last' = get_user_contribution_returns(user_id)
    /\ UNCHANGED <<hazards, user_feedback, stats, issued, now, coroutines>>

NextQuery ==
    \/ Tick
    \/ report_hazard
    \/ submit_hazard_feedback
    \/ cleanup_expired
    \/ get_crowd_stats
    \/ user_contribution

SpecQuery == Init /\ [][NextQuery]_vars

(***************************************************************************)
(* One hazard and the feedback of a crowd: each user of Crowd in turn, who *)
(* sends no position, gives one feedback on the first hazard reported.     *)
(***************************************************************************)
\* report_hazard, once.
report_hazard_once ==
    /\ issued = 0
    /\ issued' = 1
    /\ \E report \in Reports, bbox \in BBoxes :
          add_hazard(1, report[1], report[2], Location(report[3]), bbox)
    /\ UNCHANGED <<now, coroutines>>

\* submit_hazard_feedback by the next user of the crowd.
crowd_feedback ==
    /\ stats.total_feedback < MaxCrowd
    /\ \E feedback_type \in FeedbackType :
          Runs(submit_feedback_returns(1, Crowd[stats.total_feedback + 1],
                                       feedback_type, None, ConfScale, None))
    /\ UNCHANGED <<issued, now, coroutines>>

NextCrowd ==
    \/ Tick
    \/ report_hazard_once
    \/ crowd_feedback
    \/ cleanup_expired

SpecCrowd == Init /\ [][NextCrowd]_vars

(***************************************************************************)
(* The calls one after the other, with users who submit again on a hazard  *)
(* they have given feedback on, from wherever they are by then.            *)
(***************************************************************************)
\* submit_hazard_feedback by a user of the hazard's verified_by.
submit_hazard_feedback_again ==
    /\ \E i \in 1..Len(hazards), user_id \in Callers,
          feedback_type \in FeedbackType, user_location \in Positions :
            /\ Contains(hazards[i].verified_by, user_id)
            /\ Runs([submit_feedback_returns(
                         hazards[i].hazard_id, user_id, feedback_type,
                         user_location, ConfScale, None)
                       EXCEPT !.last.op = "submit_feedback_again"])
    /\ UNCHANGED <<issued, now, coroutines>>

NextRepeat ==
    \/ Tick
    \/ report_hazard
    \/ submit_hazard_feedback
    \/ cleanup_expired
    \/ submit_hazard_feedback_again

SpecRepeat == Init /\ [][NextRepeat]_vars

(***************************************************************************)
(* One hazard, the feedback of a crowd on it, and a second report.         *)
(***************************************************************************)
\* report_hazard, a second time.
report_hazard_twice ==
    /\ issued = 1
    /\ issued' = 2
    /\ \E report \in Reports, bbox \in BBoxes :
          add_hazard(2, report[1], report[2], Location(report[3]), bbox)
    /\ UNCHANGED <<now, coroutines>>

NextReplace ==
    \/ NextCrowd
    \/ report_hazard_twice

SpecReplace == Init /\ [][NextReplace]_vars

(***************************************************************************)
(* What the claims are stated with.                                        *)
(***************************************************************************)
Stored == {hazards[i] : i \in 1..Len(hazards)}

\* The stored hazards a report of class_name at location duplicates.
Duplicated(class_name, location) ==
    {h \in Stored :
        /\ h.class_name = class_name
        /\ _calculate_distance(location, h.location) <= proximity_radius_meters
        /\ h.status # RESOLVED}

\* The feedback types of a hazard's history.
Types(hazard) ==
    {hazard.feedback_history[i].feedback_type :
        i \in 1..Len(hazard.feedback_history)}

\* The records user_id has in a hazard's history.
RecordsOf(hazard, user_id) ==
    {i \in 1..Len(hazard.feedback_history) :
        hazard.feedback_history[i].user_id = user_id}

(***************************************************************************)
(* C1.  Dedup idempotence: add_hazard for a location within                *)
(* proximity_radius_meters (distance <= radius) of a stored hazard of the  *)
(* same class that is not RESOLVED returns such a stored hazard, inserts   *)
(* nothing, and leaves the store, the user index and every counter as      *)
(* they were.                                                              *)
(***************************************************************************)
C1_DedupIdempotent ==
    [][issued' # issued =>
         \A report \in Reports, bbox \in BBoxes :
           (/\ Duplicated(report[1], Location(report[3])) # {}
            /\ add_hazard(issued + 1, report[1], report[2], Location(report[3]), bbox))
           => /\ UNCHANGED <<hazards, user_feedback, stats>>
              /\ last'.op = "add_hazard"
              /\ last'.ret \in {<<h.hazard_id>> :
                                  h \in Duplicated(report[1], Location(report[3]))}]_vars

\* A report was merged into hazard 1, which has feedback and is still the
\* only hazard.
C1_Witness ==
    /\ last.op = "add_hazard"
    /\ last.branch = "existing"
    /\ last.ret = <<1>>
    /\ last.hazard_id = 2
    /\ Len(hazards) = 1
    /\ hazards[1].total_feedback > 0
    /\ stats.total_hazards = 1

(***************************************************************************)
(* C2.  A hazard whose feedback is k CONFIRM records has confirmations = k *)
(* and, once k >= verification_threshold, status VERIFIED.                 *)
(***************************************************************************)
C2_ConfirmationsVerify ==
    \A h \in Stored :
        Types(h) \subseteq {CONFIRM}
        => /\ h.confirmations = Len(h.feedback_history)
           /\ Len(h.feedback_history) >= verification_threshold
                 => h.status = VERIFIED

\* The Pothole of confidence 0.9 has 3 CONFIRM records of 3 users.
C2_Witness ==
    \E h \in Stored :
        /\ h.class_name = "Pothole"
        /\ h.initial_confidence = 9
        /\ Types(h) = {CONFIRM}
        /\ Len(h.feedback_history) = 3
        /\ Cardinality({h.verified_by[i] : i \in 1..3}) = 3
        /\ h.confirmations = 3
        /\ h.status = VERIFIED

(***************************************************************************)
(* C3.  At most one feedback per user per hazard: submit_feedback by a     *)
(* user who is in the hazard's verified_by changes nothing (the hazard,    *)
(* the user index, the counters), and no user has two records in one       *)
(* hazard's history.                                                       *)
(***************************************************************************)
C3_OneFeedbackPerUser ==
    /\ [](\A h \in Stored : \A i \in 1..Len(Users) :
             Cardinality(RecordsOf(h, Users[i])) <= 1)
    /\ [][<<hazards, user_feedback, stats>>' # <<hazards, user_feedback, stats>> =>
             \A hazard_id \in hazard_ids, i \in 1..Len(Users),
                feedback_type \in FeedbackType :
                  submit_feedback(hazard_id, Users[i], feedback_type,
                                  user_locations(Users[i]), ConfScale, None)
                  => ~Contains(get(hazard_id).verified_by, Users[i])]_vars

\* The second submission of a user returned the hazard, which has the one
\* record of that user and another user's after it.
C3_Witness ==
    /\ last.op = "submit_feedback"
    /\ last.branch = "already"
    /\ last.ret = <<last.hazard_id>>
    /\ \E h \in Stored :
          /\ h.hazard_id = last.hazard_id
          /\ h.total_feedback = 2
          /\ h.verified_by = <<"u1", "u2">>

(***************************************************************************)
(* C4.  submit_feedback from a location further than                       *)
(* proximity_radius_meters from the hazard is rejected (it returns None)   *)
(* and changes nothing: not the hazard, not the user index, not the        *)
(* counters.  From a location at distance <= radius it is not rejected     *)
(* for distance.                                                           *)
(***************************************************************************)
FurtherThanRadius(hazard, user_location) ==
    /\ user_location # None
    /\ Abs(user_location[1] - hazard.location[1]) > proximity_radius_meters

C4_TooFarRejected ==
    [][(last'.op = "submit_feedback" /\ last'.hazard_id \in hazard_ids) =>
         \A i \in 1..Len(Users), feedback_type \in FeedbackType :
           IF FurtherThanRadius(get(last'.hazard_id), user_locations(Users[i]))
           THEN submit_feedback(last'.hazard_id, Users[i], feedback_type,
                                user_locations(Users[i]), ConfScale, None)
                => /\ UNCHANGED <<hazards, user_feedback, stats>>
                   /\ last'.branch = "too_far"
                   /\ last'.ret = None
           ELSE \/ last'.branch # "too_far"
                \/ ~submit_feedback(last'.hazard_id, Users[i], feedback_type,
                                    user_locations(Users[i]), ConfScale, None)]_vars

\* A user 51 metres from a hazard was rejected, and the same user's
\* feedback is in the history of a hazard exactly 50 metres away.
C4_Witness ==
    /\ last.op = "submit_feedback"
    /\ last.branch = "too_far"
    /\ \E h \in Stored :
          /\ h.hazard_id = last.hazard_id
          /\ h.location = Location(101)
          /\ h.total_feedback = 0
    /\ \E h \in Stored : \E i \in 1..Len(h.feedback_history) :
          /\ h.location = Location(0)
          /\ h.feedback_history[i].location = Location(50)

(***************************************************************************)
(* C5.  A hazard that feedback has left with denials >= denial_threshold   *)
(* is RESOLVED when confirmations < denials and DISPUTED otherwise,        *)
(* unless the expiry override applied (the feedback came after expires_at  *)
(* and there is no confirmation), which makes it EXPIRED.                  *)
(***************************************************************************)
C5_DenialRule ==
    \A h \in Stored :
        h.denials >= denial_threshold
        => h.status = IF h.last_updated > h.expires_at /\ h.confirmations = 0
                      THEN EXPIRED
                      ELSE IF h.confirmations < h.denials
                      THEN RESOLVED
                      ELSE DISPUTED

\* 2 DENY of 2 users and no confirmation: RESOLVED.
C5_Witness ==
    \E h \in Stored :
        /\ Len(h.feedback_history) = 2
        /\ Types(h) = {DENY}
        /\ h.verified_by = <<"u1", "u2">>
        /\ h.confirmations = 0
        /\ h.denials = 2
        /\ h.status = RESOLVED

(***************************************************************************)
(* C6.  A stored hazard leaves the store only in cleanup_expired, and only *)
(* when now > expires_at and it has no confirmation; the confirmations of  *)
(* a stored hazard never decrease, so a hazard with a confirmation stays.  *)
(***************************************************************************)
ConfirmationsOf(hazard_id) == get(hazard_id).confirmations

C6_OnlySweepRemoves ==
    [][\A h \in Stored :
         IF h.hazard_id \in hazard_ids'
         THEN ConfirmationsOf(h.hazard_id)' >= h.confirmations
         ELSE /\ cleanup_expired
              /\ last'.op = "cleanup_expired"
              /\ now > h.expires_at
              /\ h.confirmations = 0]_vars

\* A sweep removed one hazard and kept one that is past expires_at too and
\* has a confirmation.
C6_Witness ==
    /\ last.op = "cleanup_expired"
    /\ last.count = 1
    /\ \E h \in Stored : now > h.expires_at /\ h.confirmations >= 1

(***************************************************************************)
(* C7.  Mutual exclusion and serialisability.  At most one task is inside  *)
(* a method's body, and the lock is held exactly while one is, from the    *)
(* acquire to the return; the store changes only in a step of the task     *)
(* that is inside; and every call under the lock returns, and leaves the   *)
(* store in, what it returns and leaves when it runs alone from the state  *)
(* in which it acquired the lock, so that the calls are as if run one      *)
(* after the other in the order of their acquires.                         *)
(***************************************************************************)
InsideTasks == {t \in Tasks : Inside(t)}

MutualExclusion ==
    /\ Cardinality(InsideTasks) <= 1
    /\ lock = (InsideTasks # {})

OneHold ==
    store' # store =>
        \E t \in Tasks : Inside(t) /\ tasks'[t] # tasks[t]

SerialReturn ==
    \A t \in Tasks :
        Inside(t) /\ tasks'[t].pc = "idle" =>
            Returned(hazards', user_feedback', stats', last') = tasks[t].serial

C7_Serialisable == []MutualExclusion /\ [][OneHold /\ SerialReturn]_vars

\* A task has recorded a feedback and awaits the recomputation while another
\* task waits for the lock with a feedback on the same hazard.
C7_Witness ==
    \E t, u \in Tasks :
        /\ tasks[t].pc = "update"
        /\ tasks[u].pc = "lock"
        /\ tasks[u].op = "submit_feedback"
        /\ tasks[u].args[1] = tasks[t].args[1]

(***************************************************************************)
(* The score and the status a recomputation at the hazard's last feedback  *)
(* gives, from the hazard's counters: the score of the formula, 0 when     *)
(* the total weight is 0; the status of the threshold rules and of the     *)
(* expiry override, where they decide it.                                  *)
(***************************************************************************)
SameScore(a, b) == a[2] # 0 /\ b[2] # 0 /\ a[1] * b[2] = b[1] * a[2]

ScoreAtLastFeedback(h) ==
    LET ai == h.initial_confidence *
                Max(72, DecayScale - 10 * (h.last_updated - h.detection_timestamp))
        confirms == h.confirmations * ConfScale * DecayScale
        denies == h.denials * 8 * DecayScale
    IN  IF confirms + denies + ai = 0
        THEN <<0, 1>>
        ELSE <<confirms + ai, confirms + denies + ai>>

StatusAtLastFeedback(h) ==
    IF h.last_updated > h.expires_at /\ h.confirmations = 0 THEN {EXPIRED}
    ELSE IF h.denials >= denial_threshold
    THEN IF h.confirmations < h.denials THEN {RESOLVED} ELSE {DISPUTED}
    ELSE IF h.confirmations >= verification_threshold THEN {VERIFIED}
    ELSE IF h.denials > 0 /\ h.confirmations > 0 THEN {DISPUTED}
    ELSE HazardStatus

Recomputed(h) ==
    /\ SameScore(h.confidence_score, ScoreAtLastFeedback(h))
    /\ h.status \in StatusAtLastFeedback(h)

(***************************************************************************)
(* C8.  Counters and recomputation are one atomic unit: in no state, which *)
(* a reader that takes no lock may see, does a stored hazard have its      *)
(* feedback recorded and its score or status not recomputed from it.       *)
(***************************************************************************)
C8_RecomputedWithCounters ==
    \A h \in Stored : h.total_feedback > 0 => Recomputed(h)

(***************************************************************************)
(* C9.  No partial failure: a call that changes anything ends normally,    *)
(* having applied its whole mutation; a submit_feedback that recorded a    *)
(* feedback has recomputed the hazard's score and status.                  *)
(***************************************************************************)
LastTarget == get(last.hazard_id)

C9_NoPartialFailure ==
    [][<<hazards, user_feedback, stats>>' # <<hazards, user_feedback, stats>> =>
         /\ last'.branch \in {"added", "accepted", "swept"}
         /\ last'.branch = "accepted" =>
               LET before == get(last'.hazard_id)
                   after == LastTarget'
                   user_id == after.verified_by[Len(after.verified_by)]
               IN  /\ after.total_feedback = before.total_feedback + 1
                   /\ Len(after.feedback_history)
                         = Len(before.feedback_history) + 1
                   /\ stats'.total_feedback = stats.total_feedback + 1
                   /\ user_id \in DOMAIN user_feedback'
                   /\ user_feedback'[user_id][Len(user_feedback'[user_id])]
                         = last'.hazard_id
                   /\ Recomputed(after)]_vars

(***************************************************************************)
(* C10.  The status counters are edge-triggered: verified_hazards,         *)
(* resolved_hazards and disputed_hazards each grow only by 1 and only in   *)
(* a step that moves a hazard into that status from another status.        *)
(***************************************************************************)
StatusOf(hazard_id) == get(hazard_id).status

Entered(status) ==
    \E h \in Stored :
        /\ h.status # status
        /\ h.hazard_id \in hazard_ids'
        /\ StatusOf(h.hazard_id)' = status

C10_EdgeTriggered ==
    [][/\ stats'.verified_hazards # stats.verified_hazards
          => /\ stats'.verified_hazards = stats.verified_hazards + 1
             /\ Entered(VERIFIED)
       /\ stats'.resolved_hazards # stats.resolved_hazards
          => /\ stats'.resolved_hazards = stats.resolved_hazards + 1
             /\ Entered(RESOLVED)
       /\ stats'.disputed_hazards # stats.disputed_hazards
          => /\ stats'.disputed_hazards = stats.disputed_hazards + 1
             /\ Entered(DISPUTED)]_vars

(***************************************************************************)
(* C11.  Per-hazard invariant: every stored hazard has total_feedback =    *)
(* len(feedback_history) = len(verified_by), no user twice in verified_by, *)
(* and verified_by[i] the user of feedback_history[i], so that verified_by *)
(* is exactly the users of the history.                                    *)
(***************************************************************************)
C11_FeedbackBookkeeping ==
    \A h \in Stored :
        /\ h.total_feedback = Len(h.feedback_history)
        /\ h.total_feedback = Len(h.verified_by)
        /\ \A i, j \in 1..Len(h.verified_by) :
              h.verified_by[i] = h.verified_by[j] => i = j
        /\ \A i \in 1..Len(h.verified_by) :
              h.verified_by[i] = h.feedback_history[i].user_id

\* A hazard with the feedback of three users, one of them an UPDATE.
C11_Witness ==
    \E h \in Stored :
        /\ h.total_feedback = 3
        /\ UPDATE \in Types(h)
        /\ h.confirmations + h.denials = 2

(***************************************************************************)
(* C12.  submit_feedback tells an unknown hazard id from a user who is too *)
(* far: what it returns for the one differs from what it returns for the   *)
(* other, and both differ from the hazard a success returns; and neither   *)
(* changes the store.                                                      *)
(***************************************************************************)
\* What submit_feedback returns for an id the dict does not hold (0 is none
\* of the ids report_hazard generates).
UnknownIdResult ==
    submit_feedback_returns(0, Users[1], CONFIRM, None, ConfScale, None).last

RejectionsDistinct ==
    last.op = "submit_feedback" =>
        /\ UnknownIdResult.branch = "not_found"
        /\ last.branch = "too_far" => last.ret # UnknownIdResult.ret
        /\ last.branch \in {"not_found", "too_far"} => last.ret # <<last.hazard_id>>
        /\ last.branch = "accepted" => last.ret = <<last.hazard_id>>

RejectionsChangeNothing ==
    last'.op = "submit_feedback" /\ last'.branch \in {"not_found", "too_far"}
        => UNCHANGED <<hazards, user_feedback, stats>>

C12_RejectionsDistinguished ==
    []RejectionsDistinct /\ [][RejectionsChangeNothing]_vars

(***************************************************************************)
(* C13.  EXPIRED is terminal: a stored hazard whose status is EXPIRED      *)
(* keeps that status as long as it is stored; and a stored hazard gets the *)
(* status EXPIRED only in the recomputation of an accepted feedback (the   *)
(* sweep marks the hazards it removes).                                    *)
(***************************************************************************)
ExpiredStays ==
    \A h \in Stored :
        h.status = EXPIRED /\ h.hazard_id \in hazard_ids'
            => StatusOf(h.hazard_id)' = EXPIRED

ExpiredOnlyByRecomputation ==
    \A h \in Stored :
        /\ h.status # EXPIRED
        /\ h.hazard_id \in hazard_ids'
        /\ StatusOf(h.hazard_id)' = EXPIRED
        => /\ last'.op = "submit_feedback"
           /\ last'.branch = "accepted"
           /\ last'.hazard_id = h.hazard_id

C13_ExpiredTerminal == [][ExpiredStays /\ ExpiredOnlyByRecomputation]_vars

(***************************************************************************)
(* C14.  cleanup_expired and a submit_feedback on the same hazard          *)
(* serialise.  While a feedback is recorded and not yet recomputed its     *)
(* hazard is in the dict; the sweep runs when no feedback is in the        *)
(* middle, removes only hazards without a confirmation, each with all the  *)
(* feedback recorded on it, and keeps every hazard that has a              *)
(* confirmation; and a feedback that finds its hazard removed returns the  *)
(* not-found result and changes nothing.                                   *)
(***************************************************************************)
FeedbackOnStoredHazard ==
    \A t \in Tasks :
        tasks[t].pc = "update" =>
            /\ tasks[t].args[1] \in hazard_ids
            /\ Contains(get(tasks[t].args[1]).verified_by, tasks[t].args[2])

SweepBetweenFeedbacks ==
    \A t \in Tasks :
        tasks[t].pc = "sweep" /\ tasks'[t].pc = "idle" =>
            /\ \A u \in Tasks \ {t} : ~Inside(u)
            /\ \A i \in 1..Len(last'.removed) :
                  /\ last'.removed[i].confirmations = 0
                  /\ last'.removed[i].total_feedback
                        = Len(last'.removed[i].feedback_history)
                  /\ [last'.removed[i] EXCEPT !.status = UNVERIFIED]
                        \in {[h EXCEPT !.status = UNVERIFIED] : h \in Stored}
            /\ \A h \in Stored : h.confirmations > 0 => h \in Stored'

FeedbackAfterSweep ==
    \A t \in Tasks :
        /\ tasks[t].pc = "record"
        /\ tasks'[t] # tasks[t]
        /\ tasks[t].args[1] \notin hazard_ids
        => /\ last'.op = "submit_feedback"
           /\ last'.branch = "not_found"
           /\ last'.ret = None
           /\ UNCHANGED <<hazards, user_feedback, stats>>

C14_SweepAndFeedbackSerialise ==
    /\ []FeedbackOnStoredHazard
    /\ [][SweepBetweenFeedbacks /\ FeedbackAfterSweep]_vars

\* A CONFIRM is recorded, and not yet recomputed, on a hazard that is past
\* expires_at and had no confirmation, while a sweep waits for the lock.
C14_Witness ==
    \E t, u \in Tasks :
        /\ tasks[t].pc = "update"
        /\ tasks[t].args[3] = CONFIRM
        /\ now > tasks[t].hazard.expires_at
        /\ tasks[t].hazard.confirmations = 1
        /\ tasks[u].pc = "lock"
        /\ tasks[u].op = "cleanup_expired"

(***************************************************************************)
(* C15.  get_hazards_nearby returns exactly the stored hazards within      *)
(* radius_meters of the location (the radius included) and, unless         *)
(* include_resolved, neither RESOLVED nor EXPIRED: each once, none other,  *)
(* none missing; and it changes no state.                                  *)
(***************************************************************************)
Qualifying(search) ==
    {h.hazard_id : h \in
        {g \in Stored :
            /\ _calculate_distance(Location(search[1]), g.location) <= search[2]
            /\ search[3] \/ g.status \notin {RESOLVED, EXPIRED}}}

Found(search) ==
    get_hazards_nearby_returns(Location(search[1]), search[2], search[3])

SearchExact ==
    /\ \A search \in Searches :
          LET returned == Found(search)
              ids == returned.last.ret
          IN  /\ {ids[i] : i \in 1..Len(ids)} = Qualifying(search)
              /\ Len(ids) = Cardinality(Qualifying(search))
              /\ returned.last.count = Len(ids)
              /\ returned.hazards = hazards
              /\ returned.user_feedback = user_feedback
              /\ returned.stats = stats
    /\ last.op = "get_hazards_nearby" =>
          \E search \in Searches : last = Found(search).last

SearchReadOnly ==
    last'.op = "get_hazards_nearby" /\ last' # last
        => UNCHANGED <<hazards, user_feedback, stats>>

C15_NearbyExact == []SearchExact /\ [][SearchReadOnly]_vars

\* A search returned the second hazard alone while the first, RESOLVED, is
\* within the radius of every search.
C15_Witness ==
    /\ last.op = "get_hazards_nearby"
    /\ last.ret = <<2>>
    /\ Len(hazards) = 2
    /\ hazards[1].status = RESOLVED
    /\ hazards[1].location[1] <= 50

(***************************************************************************)
(* C16.  The sequence get_hazards_nearby returns is ordered by             *)
(* confidence_score descending: no hazard of the result has a score below  *)
(* the score of the hazard after it, the scores being those of the store   *)
(* the search ran on.                                                      *)
(***************************************************************************)
ScoreOf(hazard_id) == get(hazard_id).confidence_score

\* a >= b for two fractions of positive denominator.
NotBelow(a, b) == a[2] > 0 /\ b[2] > 0 /\ a[1] * b[2] >= b[1] * a[2]

C16_NearbySorted ==
    \A search \in Searches :
        LET ids == Found(search).last.ret
        IN  \A i \in 1..(Len(ids) - 1) :
               NotBelow(ScoreOf(ids[i]), ScoreOf(ids[i + 1]))

\* A search returned the second hazard before the first, whose score is
\* lower.
C16_Witness ==
    /\ last.op = "get_hazards_nearby"
    /\ last.ret = <<2, 1>>
    /\ hazards[1].hazard_id = 1
    /\ ~NotBelow(ScoreOf(1), ScoreOf(2))

(***************************************************************************)
(* C17.  The confidence_score of every stored hazard lies in [0, 1],       *)
(* whatever confirmations and denials it received (the reports of the      *)
(* model have an initial confidence in [0, 1]).                            *)
(***************************************************************************)
InUnitInterval(score) ==
    /\ score[2] > 0
    /\ 0 <= score[1]
    /\ score[1] <= score[2]

C17_ScoreInUnitInterval ==
    \A h \in Stored :
        h.initial_confidence \in 0..ConfScale => InUnitInterval(h.confidence_score)

\* A hazard with a confirmation and two denials whose score is strictly
\* inside the interval.
C17_Witness ==
    \E h \in Stored :
        /\ h.confirmations >= 1
        /\ h.denials >= 2
        /\ 0 < h.confidence_score[1]
        /\ h.confidence_score[1] < h.confidence_score[2]

(***************************************************************************)
(* C18.  Denials dilute the score.  OneMoreDenial(h) is h with one denial  *)
(* more and everything else, its age too, as it is; Scored(h) says that    *)
(* the stored score of h is the one the formula gives for its counters at  *)
(* this age.                                                               *)
(***************************************************************************)
OneMoreDenial(h) == [h EXCEPT !.denials = @ + 1]

\* a < b for two fractions of positive denominator.
Below(a, b) == a[2] > 0 /\ b[2] > 0 /\ a[1] * b[2] < b[1] * a[2]

Scored(h) ==
    /\ h.total_feedback > 0
    /\ h.last_updated = now
    /\ total_weight(h) > 0
    /\ h.confidence_score = crowd_score(h)

\* The hazards an accepted DENY or RESOLVE of this step was recorded on,
\* whose score before the step was the formula's at this age.
Denied ==
    {h \in Stored :
        /\ Scored(h)
        /\ last'.op = "submit_feedback"
        /\ last'.branch = "accepted"
        /\ last'.hazard_id = h.hazard_id
        /\ LastTarget'.denials = h.denials + 1}

\* C18 as the claim states it: for every d >= 0 the score with d + 1
\* denials is strictly below the score with d denials.
StrictlyDiluted ==
    \A h \in Stored :
        total_weight(OneMoreDenial(h)) > 0 /\ total_weight(h) > 0
            => Below(crowd_score(OneMoreDenial(h)), crowd_score(h))

StrictlyLowered ==
    \A h \in Denied : Below(LastTarget'.confidence_score, h.confidence_score)

C18_StrictlyDecreasing == []StrictlyDiluted /\ [][StrictlyLowered]_vars

\* C18 amended: denials enter the denominator only, 0.8 each; the score
\* with one denial more is strictly below where the numerator (the
\* confirmations and the decayed initial confidence) is positive, and is 0
\* as before where the numerator is 0.
Diluted ==
    \A h \in Stored :
        total_weight(h) > 0 =>
            LET before == crowd_score(h)
                after == crowd_score(OneMoreDenial(h))
            IN  /\ after[1] = before[1]
                /\ after[2] = before[2] + 8 * DecayScale
                /\ before[1] > 0 => Below(after, before)
                /\ before[1] = 0 => after[1] = 0 /\ after[2] > 0

Lowered ==
    \A h \in Denied :
        /\ LastTarget'.confidence_score = crowd_score(OneMoreDenial(h))
        /\ h.confidence_score[1] > 0
              => Below(LastTarget'.confidence_score, h.confidence_score)
        /\ h.confidence_score[1] = 0 => LastTarget'.confidence_score[1] = 0

C18_DecreasingWherePositive == []Diluted /\ [][Lowered]_vars

\* A DENY was accepted on a hazard with a confirmation and a denial, the
\* earlier feedback at the same hour: its score fell and stays above 0.
C18_Witness ==
    /\ last.op = "submit_feedback"
    /\ last.branch = "accepted"
    /\ last.hazard_id \in hazard_ids
    /\ LastTarget.confirmations = 1
    /\ LastTarget.denials = 2
    /\ LastTarget.feedback_history[3].feedback_type = DENY
    /\ LastTarget.feedback_history[1].timestamp = now
    /\ LastTarget.confidence_score[1] > 0

(***************************************************************************)
(* C19.  add_hazard for a report that no stored hazard matches (same       *)
(* class, within the radius, not RESOLVED) stores exactly one new hazard   *)
(* under hazard_id, after the hazards the dict holds, which it leaves as   *)
(* they are: UNVERIFIED, with no confirmation, denial or feedback, an      *)
(* empty history and verified_by, the supplied confidence as its score,    *)
(* expires_at = now + expiry_hours; total_hazards grows by 1 and nothing   *)
(* else changes.                                                           *)
(***************************************************************************)
NewestHazard == hazards[Len(hazards)]

C19_CreatesFresh ==
    [][issued' # issued =>
         \A report \in Reports, bbox \in BBoxes :
           (/\ Duplicated(report[1], Location(report[3])) = {}
            /\ add_hazard(issued + 1, report[1], report[2], Location(report[3]), bbox))
           => /\ Len(hazards') = Len(hazards) + 1
              /\ SubSeq(hazards', 1, Len(hazards)) = hazards
              /\ NewestHazard'.hazard_id = issued + 1
              /\ NewestHazard'.class_name = report[1]
              /\ NewestHazard'.location = Location(report[3])
              /\ NewestHazard'.initial_confidence = report[2]
              /\ NewestHazard'.status = UNVERIFIED
              /\ NewestHazard'.confirmations = 0
              /\ NewestHazard'.denials = 0
              /\ NewestHazard'.total_feedback = 0
              /\ NewestHazard'.feedback_history = <<>>
              /\ NewestHazard'.verified_by = <<>>
              /\ NewestHazard'.confidence_score[1] * ConfScale
                    = report[2] * NewestHazard'.confidence_score[2]
              /\ NewestHazard'.confidence_score[2] > 0
              /\ NewestHazard'.detection_timestamp = now
              /\ NewestHazard'.expires_at = now + expiry_hours
              /\ stats'.total_hazards = stats.total_hazards + 1
              /\ stats' = [stats EXCEPT !.total_hazards = stats'.total_hazards]
              /\ user_feedback' = user_feedback
              /\ last'.ret = <<issued + 1>>]_vars

\* A second hazard was created, at a later hour, next to one that has
\* feedback.
C19_Witness ==
    /\ last.op = "add_hazard"
    /\ last.branch = "added"
    /\ last.hazard_id = 2
    /\ Len(hazards) = 2
    /\ hazards[1].total_feedback > 0
    /\ NewestHazard.detection_timestamp > 0
    /\ stats.total_hazards = 2

(***************************************************************************)
(* C20.  RESOLVED hazards are never merge targets.  For a report whose     *)
(* stored neighbours (same class, within the radius) are all RESOLVED,     *)
(* add_hazard creates a new hazard and adds 1 to total_hazards; for a      *)
(* report with a neighbour that is UNVERIFIED, VERIFIED, DISPUTED or       *)
(* EXPIRED it returns a neighbour that is not RESOLVED and creates none.   *)
(***************************************************************************)
Neighbours(class_name, location) ==
    {h \in Stored :
        /\ h.class_name = class_name
        /\ _calculate_distance(location, h.location) <= proximity_radius_meters}

MergeTargets ==
    \A report \in Reports, bbox \in BBoxes :
        LET near == Neighbours(report[1], Location(report[3]))
            returned == add_hazard_returns(issued + 1, report[1], report[2],
                                           Location(report[3]), bbox)
        IN  /\ (near # {} /\ \A h \in near : h.status = RESOLVED)
               => /\ returned.last.branch = "added"
                  /\ returned.last.ret = <<issued + 1>>
                  /\ Len(returned.hazards) = Len(hazards) + 1
                  /\ returned.stats.total_hazards = stats.total_hazards + 1
            /\ \A status \in {UNVERIFIED, VERIFIED, DISPUTED, EXPIRED} :
                  (\E h \in near : h.status = status)
                  => /\ returned.last.branch = "existing"
                     /\ returned.last.ret \in
                           {<<h.hazard_id>> : h \in {g \in near : g.status # RESOLVED}}
                     /\ returned.hazards = hazards
                     /\ returned.stats = stats

CreatedNextToResolved ==
    issued' # issued =>
        \A report \in Reports, bbox \in BBoxes :
           (/\ Neighbours(report[1], Location(report[3])) # {}
            /\ \A h \in Neighbours(report[1], Location(report[3])) :
                  h.status = RESOLVED
            /\ add_hazard(issued + 1, report[1], report[2], Location(report[3]), bbox))
           => /\ last'.branch = "added"
              /\ issued + 1 \in hazard_ids'
              /\ Len(hazards') = Len(hazards) + 1
              /\ stats'.total_hazards = stats.total_hazards + 1

C20_ResolvedNeverMerged == []MergeTargets /\ [][CreatedNextToResolved]_vars

\* A hazard was created where the report's only neighbour is RESOLVED.
C20_Witness ==
    /\ last.op = "add_hazard"
    /\ last.branch = "added"
    /\ Len(hazards) = 2
    /\ hazards[1].status = RESOLVED
    /\ hazards[1] \in Neighbours(hazards[2].class_name, hazards[2].location)

(***************************************************************************)
(* C21.  cleanup_expired removes exactly the stored hazards with           *)
(* now > expires_at and confirmations = 0, whatever their status, marks    *)
(* each of them EXPIRED, leaves the others as they are and in their order, *)
(* and returns the number removed, which is the decrease of the dict's     *)
(* size.                                                                   *)
(***************************************************************************)
Due == {h \in Stored : now > h.expires_at /\ h.confirmations = 0}

\* seq without the hazards of gone, in order.
RECURSIVE Without(_, _)
Without(seq, gone) ==
    IF seq = <<>> THEN <<>>
    ELSE IF Head(seq) \in gone THEN Without(Tail(seq), gone)
    ELSE <<Head(seq)>> \o Without(Tail(seq), gone)

C21_SweepRemovesDue ==
    [][last'.op = "cleanup_expired" /\ last' # last =>
         /\ hazards' = Without(hazards, Due)
         /\ last'.count = Cardinality(Due)
         /\ last'.count = Len(hazards) - Len(hazards')
         /\ Len(last'.removed) = last'.count
         /\ {last'.removed[i] : i \in 1..Len(last'.removed)}
               = {[h EXCEPT !.status = EXPIRED] : h \in Due}
         /\ UNCHANGED <<user_feedback, stats>>]_vars

\* A sweep removed a hazard that two denials had made RESOLVED and kept a
\* hazard that is not past expires_at.
C21_Witness ==
    /\ last.op = "cleanup_expired"
    /\ last.count = 1
    /\ last.removed[1].denials >= 2
    /\ last.removed[1].confirmations = 0
    /\ Len(hazards) = 1
    /\ now <= hazards[1].expires_at

(***************************************************************************)
(* C22.  The severity of a hazard is the lookup of its class (Pothole      *)
(* high, Speed Breaker medium, Debris critical, Road Crack low, any other  *)
(* medium), raised one level when the confidence it was created with is    *)
(* above 0.8 (low to medium, medium to high, high to critical, critical    *)
(* stays), and the lookup itself otherwise.                                *)
(***************************************************************************)
Lookup(class_name) ==
    CASE class_name = "Pothole" -> "high"
      [] class_name = "Speed Breaker" -> "medium"
      [] class_name = "Debris" -> "critical"
      [] class_name = "Road Crack" -> "low"
      [] OTHER -> "medium"

Raised(severity) ==
    CASE severity = "low" -> "medium"
      [] severity = "medium" -> "high"
      [] severity = "high" -> "critical"
      [] severity = "critical" -> "critical"

C22_SeverityLadder ==
    \A h \in Stored :
        h.severity = IF h.initial_confidence > 8
                     THEN Raised(Lookup(h.class_name))
                     ELSE Lookup(h.class_name)


(***************************************************************************)
(* C23.  get_user_contribution(user_id) reports as total_feedback the      *)
(* number of the user's accepted feedback submissions over the whole       *)
(* history (a submission is accepted when it passes the three checks and   *)
(* is recorded), those on hazards the sweep removed included, with the     *)
(* hazard ids in submission order and reputation_score = min(100, 5 *      *)
(* total_feedback); for a user without accepted feedback it reports 0 and  *)
(* creates no index entry.                                                 *)
(***************************************************************************)
\* The dict the last get_user_contribution returned.
Contribution == last.removed[1]

\* The list the index holds for user_id, empty when it holds none.
IndexOf(user_id) ==
    IF user_id \in DOMAIN user_feedback THEN user_feedback[user_id] ELSE <<>>

\* What was returned is the length of the user's list, the list and the
\* capped reputation; no list holds a hazard twice.
ContributionExact ==
    /\ last.op = "get_user_contribution" =>
          /\ Contribution.user_id = last.branch
          /\ Contribution.hazards_contributed = IndexOf(Contribution.user_id)
          /\ Contribution.total_feedback = Len(Contribution.hazards_contributed)
          /\ Contribution.reputation_score =
                IF 5 * Contribution.total_feedback > 100 THEN 100
                ELSE 5 * Contribution.total_feedback
    /\ \A n \in 0..MaxCount :
          reputation_score(n) = IF n >= 20 THEN 100 ELSE 5 * n
    /\ \A user_id \in DOMAIN user_feedback :
          \A i, j \in 1..Len(user_feedback[user_id]) :
             user_feedback[user_id][i] = user_feedback[user_id][j] => i = j

\* The step records a feedback on the i-th hazard of the dict.
Accepts(i) ==
    /\ Len(hazards') = Len(hazards)
    /\ Len(hazards'[i].feedback_history) = Len(hazards[i].feedback_history) + 1

\* The index after user_id's feedback on hazard_id: the id at the end of the
\* user's list, the other lists as they were.
Indexed(user_id, hazard_id) ==
    /\ DOMAIN user_feedback' = DOMAIN user_feedback \cup {user_id}
    /\ user_feedback'[user_id] = Append(IndexOf(user_id), hazard_id)
    /\ \A other \in DOMAIN user_feedback \ {user_id} :
          user_feedback'[other] = user_feedback[other]

\* The index changes in the steps that record a feedback and in no other
\* (no sweep, no query): it gains the hazard's id at the end of the list of
\* the user of the new record.
IndexIsHistory ==
    [][/\ \A i \in 1..Len(hazards) :
             Accepts(i) =>
                LET history == hazards'[i].feedback_history
                IN  Indexed(history[Len(history)].user_id, hazards[i].hazard_id)
       /\ (\A i \in 1..Len(hazards) : ~Accepts(i)) =>
             user_feedback' = user_feedback]_vars

C23_ContributionHistory == []ContributionExact /\ IndexIsHistory

\* A user is told of feedback on a hazard the sweep has removed.
C23_Witness ==
    /\ last.op = "get_user_contribution"
    /\ Contribution.total_feedback >= 1
    /\ \E i \in 1..Len(Contribution.hazards_contributed) :
          Contribution.hazards_contributed[i] \notin hazard_ids


(***************************************************************************)
(* C24.  Every aggregate counter (total_hazards, verified_hazards,         *)
(* resolved_hazards, disputed_hazards, total_feedback,                     *)
(* unique_contributors) is monotonically non-decreasing: no create,        *)
(* feedback, sweep or query decrements one, also when a hazard leaves a    *)
(* counted status or is removed from the store.                            *)
(***************************************************************************)
Counters ==
    {"total_hazards", "verified_hazards", "resolved_hazards",
     "disputed_hazards", "total_feedback", "unique_contributors"}

C24_CountersMonotone ==
    [][/\ DOMAIN stats' = Counters
       /\ \A counter \in Counters : stats'[counter] >= stats[counter]]_vars

\* The statistics read after the sweep removed the only hazard, which was
\* RESOLVED: it is still counted as created and as resolved.
C24_Witness ==
    /\ last.op = "get_stats"
    /\ hazards = <<>>
    /\ last.removed[1].total_hazards >= 1
    /\ last.removed[1].resolved_hazards >= 1


(***************************************************************************)
(* C25.  Cancellation safety: the cancellation of a caller of add_hazard,  *)
(* submit_feedback or cleanup_expired takes effect while the operation     *)
(* still waits for the lock, with no state mutated, or after it has        *)
(* completed in full; no task is suspended between two mutations inside a  *)
(* critical section, so a cancellation leaves no partial mutation.         *)
(***************************************************************************)
\* No task under the lock is at an await that yields.
NoSuspensionInside ==
    \A t \in Tasks : Inside(t) => ~yields(awaited(tasks[t].pc), lock)

\* A task leaves its method cancelled while it waits for the lock, having
\* changed nothing, or from under the lock with all the method does when it
\* runs alone done.
WaitingOrComplete ==
    \A t \in Tasks :
        tasks[t].pc # "idle" /\ tasks'[t].pc = "idle" =>
            \/ /\ tasks[t].pc = "lock"
               /\ lock
               /\ last'.branch = "cancelled"
               /\ UNCHANGED <<store, lock>>
            \/ /\ Inside(t)
               /\ Returned(hazards', user_feedback', stats', last')
                     = tasks[t].serial

C25_CancellationSafe == []NoSuspensionInside /\ [][WaitingOrComplete]_vars

\* A feedback waiting for the lock has been cancelled while another task has
\* recorded its feedback and not yet recomputed.
C25_Witness ==
    /\ last.op = "submit_feedback"
    /\ last.branch = "cancelled"
    /\ \E t \in Tasks : tasks[t].pc = "update"


(***************************************************************************)
(* C26.  Each accepted feedback (one that passes the three checks)         *)
(* appends one record, adds the user to verified_by and adds 1 to the      *)
(* hazard's total_feedback; CONFIRM adds 1 to confirmations only, DENY     *)
(* and RESOLVE add 1 to denials only, UPDATE changes neither.  Hence in    *)
(* every reachable state confirmations is the number of CONFIRM records    *)
(* of the history, denials the number of DENY and RESOLVE records, and     *)
(* confirmations + denials <= total_feedback.                              *)
(***************************************************************************)
\* The number of records of the given types in a hazard's history.
Count(hazard, types) ==
    Cardinality({i \in 1..Len(hazard.feedback_history) :
                    hazard.feedback_history[i].feedback_type \in types})

CountersAreHistory ==
    \A h \in Stored :
        /\ h.confirmations = Count(h, {CONFIRM})
        /\ h.denials = Count(h, {DENY, RESOLVE})
        /\ h.confirmations + h.denials <= h.total_feedback

\* The step is a submit_feedback that got past the three checks.
AcceptedStep ==
    /\ last'.op = "submit_feedback"
    /\ last'.branch \in {"accepted", "raised"}
    /\ stats'.total_feedback # stats.total_feedback

RecordedByType ==
    AcceptedStep =>
        LET before == get(last'.hazard_id)
            after == LastTarget'
            record == after.feedback_history[Len(after.feedback_history)]
            type == record.feedback_type
        IN  /\ after.feedback_history = Append(before.feedback_history, record)
            /\ after.verified_by = Append(before.verified_by, record.user_id)
            /\ after.total_feedback = before.total_feedback + 1
            /\ after.confirmations =
                  before.confirmations + (IF type = CONFIRM THEN 1 ELSE 0)
            /\ after.denials =
                  before.denials + (IF type \in {DENY, RESOLVE} THEN 1 ELSE 0)

C26_CountedByType == []CountersAreHistory /\ [][RecordedByType]_vars

\* A hazard with a record of each of the four types.
C26_Witness ==
    \E h \in Stored :
        /\ Types(h) = FeedbackType
        /\ h.confirmations = 1
        /\ h.denials = 2
        /\ h.total_feedback = 4


(***************************************************************************)
(* C27.  The denial rule has priority over the verification rule: a        *)
(* recomputation with denials >= denial_threshold never yields VERIFIED,   *)
(* also when confirmations >= verification_threshold; denials never        *)
(* decrease, so a hazard that has reached denials >= denial_threshold is   *)
(* never VERIFIED afterwards; VERIFIED results only when confirmations >=  *)
(* verification_threshold and denials < denial_threshold.                  *)
(***************************************************************************)
VerifiedOnlyUndenied ==
    \A h \in Stored :
        h.status = VERIFIED =>
            /\ h.confirmations >= verification_threshold
            /\ h.denials < denial_threshold

\* The denials of a hazard that stays in the dict do not decrease, and the
\* recomputation of an accepted feedback with denials at the threshold does
\* not leave it VERIFIED.
DenialsStay ==
    /\ \A i \in 1..Len(hazards), j \in 1..Len(hazards') :
          hazards'[j].hazard_id = hazards[i].hazard_id =>
             hazards'[j].denials >= hazards[i].denials
    /\ AcceptedStep /\ LastTarget'.denials >= denial_threshold =>
          LastTarget'.status # VERIFIED

C27_DenialBeforeVerification == []VerifiedOnlyUndenied /\ [][DenialsStay]_vars

\* A hazard three users confirmed and two then denied: VERIFIED after the
\* third feedback, it is DISPUTED with confirmations at the threshold.
C27_Witness ==
    \E h \in Stored :
        /\ h.total_feedback = 5
        /\ \A i \in 1..3 : h.feedback_history[i].feedback_type = CONFIRM
        /\ \A i \in 4..5 : h.feedback_history[i].feedback_type = DENY
        /\ h.status = DISPUTED


(***************************************************************************)
(* C28.  Below both thresholds (denials < denial_threshold and             *)
(* confirmations < verification_threshold) a recomputation sets DISPUTED   *)
(* when denials > 0 and confirmations > 0, and otherwise leaves the status *)
(* exactly as it was.                                                      *)
(***************************************************************************)
\* The step is an accepted feedback that leaves its hazard below both
\* thresholds.
BelowThresholds ==
    /\ AcceptedStep
    /\ LastTarget'.denials < denial_threshold
    /\ LastTarget'.confirmations < verification_threshold

Mixed(hazard) == hazard.denials > 0 /\ hazard.confirmations > 0

C28_DisputedOrUnchanged ==
    [][BelowThresholds =>
         LastTarget'.status =
            IF Mixed(LastTarget') THEN DISPUTED
            ELSE get(last'.hazard_id).status]_vars

\* As amended: below both thresholds a recomputation sets DISPUTED when
\* denials > 0 and confirmations > 0; otherwise, past expires_at with no
\* confirmation, it sets EXPIRED unless it raises before it assigns
\* anything; otherwise it leaves the status exactly as it was.
C28_DisputedExpiredOrUnchanged ==
    [][BelowThresholds =>
         LastTarget'.status =
            IF Mixed(LastTarget') THEN DISPUTED
            ELSE IF /\ now > LastTarget'.expires_at
                    /\ LastTarget'.confirmations = 0
                    /\ last'.branch # "raised"
            THEN EXPIRED
            ELSE get(last'.hazard_id).status]_vars

\* A single DENY past expires_at has made an UNVERIFIED hazard EXPIRED.
C28_Witness ==
    \E h \in Stored :
        /\ h.total_feedback = 1
        /\ h.denials = 1
        /\ h.status = EXPIRED


(***************************************************************************)
(* C29.  The expiry override is advisory: a recomputation performed when   *)
(* now > expires_at and confirmations = 0 sets the status to EXPIRED       *)
(* whichever threshold rule fired, and the hazard stays in the store,      *)
(* returned by get_hazard and accepting feedback, until cleanup_expired    *)
(* runs; a recomputation with confirmations >= 1 never sets EXPIRED.       *)
(***************************************************************************)
\* The recomputation of an accepted feedback past expires_at with no
\* confirmation leaves the hazard EXPIRED and in the dict.
OverrideKeeps ==
    AcceptedStep /\ now > LastTarget'.expires_at
                 /\ LastTarget'.confirmations = 0 =>
        /\ LastTarget'.status = EXPIRED
        /\ last'.hazard_id \in hazard_ids'

\* get_hazard returns an EXPIRED hazard of the dict, and a user who has
\* given no feedback on it is accepted.
ExpiredServed ==
    \A h \in Stored :
        h.status = EXPIRED =>
            /\ get_hazard_returns(h.hazard_id).last.ret = <<h.hazard_id>>
            /\ \A user_id \in Callers :
                  ~already_provided(h, user_id) =>
                     submit_feedback_branch(h.hazard_id, user_id, None)
                        = "accepted"

\* The recomputation of an accepted feedback with a confirmation does not
\* make EXPIRED a hazard that was not.
ConfirmedNotExpired ==
    AcceptedStep /\ LastTarget'.confirmations >= 1
                 /\ get(last'.hazard_id).status # EXPIRED =>
        LastTarget'.status # EXPIRED

\* A hazard leaves the dict in a cleanup_expired only.
RemovedBySweep ==
    hazard_ids \ hazard_ids' # {} => last'.op = "cleanup_expired"

C29_ExpiryAdvisory ==
    /\ []ExpiredServed
    /\ [][OverrideKeeps /\ ConfirmedNotExpired /\ RemovedBySweep]_vars


(***************************************************************************)
(* C30.  Each accepted feedback (one that passes the three checks) adds 1  *)
(* to stats.total_feedback and appends the hazard id to the user's list    *)
(* in the index; unique_contributors grows by 1 exactly when the user had  *)
(* no accepted feedback before.  Hence unique_contributors is the number   *)
(* of users in the index and stats.total_feedback the sum of the lengths   *)
(* of their lists; a rejected, a not-found and a duplicate submission      *)
(* change neither.                                                         *)
(***************************************************************************)
\* The sum of the lengths of the lists of the given users.
RECURSIVE Lengths(_, _)
Lengths(index, users) ==
    IF users = {} THEN 0
    ELSE LET user_id == CHOOSE u \in users : TRUE
         IN  Len(index[user_id]) + Lengths(index, users \ {user_id})

IndexCounted ==
    /\ stats.unique_contributors = Cardinality(DOMAIN user_feedback)
    /\ stats.total_feedback = Lengths(user_feedback, DOMAIN user_feedback)

\* The step is a submit_feedback past the three checks: it has recorded a
\* feedback on its hazard.
Recorded ==
    /\ last'.op = "submit_feedback"
    /\ last'.branch \in {"accepted", "raised"}
    /\ hazards' # hazards

\* The step is a submit_feedback that returned at one of the three checks.
Refused ==
    /\ last'.op = "submit_feedback"
    /\ last'.branch \in {"not_found", "too_far", "already"}
    /\ last' # last

ContributorsCounted ==
    /\ Recorded =>
          LET hazard_id == last'.hazard_id
              user_id == LastTarget'.verified_by[Len(LastTarget'.verified_by)]
          IN  /\ stats'.total_feedback = stats.total_feedback + 1
              /\ Indexed(user_id, hazard_id)
              /\ stats'.unique_contributors =
                    stats.unique_contributors
                       + (IF user_id \in DOMAIN user_feedback THEN 0 ELSE 1)
    /\ Refused => UNCHANGED <<hazards, user_feedback, stats>>
    /\ ~Recorded =>
          /\ user_feedback' = user_feedback
          /\ stats'.total_feedback = stats.total_feedback
          /\ stats'.unique_contributors = stats.unique_contributors

C30_IndexAndCounters == []IndexCounted /\ [][ContributorsCounted]_vars

\* One user's feedback on two hazards, counted as one contributor, and a
\* second submission of that user on one of them returned as a duplicate.
C30_Witness ==
    /\ last.branch = "already"
    /\ stats.unique_contributors = 1
    /\ stats.total_feedback = 2
    /\ \E user_id \in DOMAIN user_feedback : Len(user_feedback[user_id]) = 2


(***************************************************************************)
(* C31.  A repeat submission by a user already in an existing hazard's     *)
(* verified_by is a no-op success: submit_feedback returns the hazard      *)
(* itself and never an error outcome (neither NOT_FOUND nor REJECTED nor   *)
(* an exception).                                                          *)
(***************************************************************************)
\* The step is a submission of a user who is in the hazard's verified_by.
Repeats == last'.op = "submit_feedback_again" /\ last' # last

C31_RepeatSucceeds ==
    [][Repeats =>
         /\ last'.ret = <<last'.hazard_id>>
         /\ last'.branch = "already"
         /\ UNCHANGED store]_vars

\* As amended: the repeat submission is a no-op that returns the hazard
\* itself, unless it supplies a user_location further than the radius from
\* the hazard, in which case it is REJECTED as too far (the proximity check
\* comes before the duplicate check); it never gets NOT_FOUND or an
\* exception, and changes nothing either way.
RepeatBranch ==
    \A h \in Stored, user_location \in Positions :
        \A i \in 1..Len(h.verified_by) :
            submit_feedback_branch(h.hazard_id, h.verified_by[i], user_location)
               = IF /\ user_location # None
                    /\ _calculate_distance(h.location, user_location)
                          > proximity_radius_meters
                 THEN "too_far"
                 ELSE "already"

RepeatReturns ==
    Repeats =>
        /\ last'.branch \in {"already", "too_far"}
        /\ last'.ret = IF last'.branch = "already"
                       THEN <<last'.hazard_id>> ELSE None
        /\ last'.hazard_id \in hazard_ids
        /\ UNCHANGED store

C31_RepeatSucceedsWhenNear == []RepeatBranch /\ [][RepeatReturns]_vars

\* A user in verified_by has submitted again from too far and got None.
C31_Witness ==
    /\ last.op = "submit_feedback_again"
    /\ last.branch = "too_far"
    /\ get(last.hazard_id).total_feedback >= 1


(***************************************************************************)
(* C32.  Degenerate score: a recomputation with total_feedback > 0 and     *)
(* total_weight = 0 (initial_confidence 0, no confirmation, no denial, as  *)
(* for an accepted UPDATE that is the first feedback on a hazard created   *)
(* with confidence 0) completes with confidence_score = 0 and does not     *)
(* fail on a division by zero.                                             *)
(***************************************************************************)
C32_DegenerateScoreZero ==
    [][Recorded /\ total_weight(LastTarget') = 0 =>
         /\ last'.branch = "accepted"
         /\ last'.ret = <<last'.hazard_id>>
         /\ LastTarget'.confidence_score[1] = 0
         /\ LastTarget'.confidence_score[2] > 0]_vars


(***************************************************************************)
(* C33.  Concurrent dedup: when two add_hazard calls for the same          *)
(* class_name and for locations within proximity_radius_meters of each     *)
(* other run at the same time and no stored hazard matches either, exactly *)
(* one hazard is inserted, total_hazards grows by exactly 1, and both      *)
(* callers receive that hazard.                                            *)
(***************************************************************************)
\* Task t is in an add_hazard call.
Adding(t) == tasks[t].op = "add_hazard" /\ tasks[t].pc # "idle"

\* The stored hazards the report of task t duplicates.
Matches(t) == Duplicated(tasks[t].args[2], tasks[t].args[4])

\* t is under the lock in add_hazard while u waits for the lock with a
\* report of the same class within the radius of t's, and the dict holds no
\* match for either.
Race(t, u) ==
    /\ t # u
    /\ Adding(t) /\ Inside(t)
    /\ Adding(u) /\ tasks[u].pc = "lock"
    /\ tasks[t].args[2] = tasks[u].args[2]
    /\ _calculate_distance(tasks[t].args[4], tasks[u].args[4])
          <= proximity_radius_meters
    /\ Matches(t) = {}
    /\ Matches(u) = {}

\* u is the next to take the lock, or has it and has not yet looked for a
\* match; the match it will find is hazard_id, and no other task is under
\* the lock.
Pending(u, hazard_id) ==
    /\ Adding(u)
    /\ tasks[u].pc = "find" \/ (tasks[u].pc = "lock" /\ in_turn(u))
    /\ _find_nearby_hazard(tasks[u].args[4], tasks[u].args[2]) = <<hazard_id>>
    /\ \A v \in Tasks \ {u} : ~Inside(v)

\* The first of the two inserts its hazard, which is then the match the
\* second will find.
FirstInserts ==
    \A t, u \in Tasks :
        Race(t, u) /\ tasks'[t].pc = "idle" =>
            /\ last'.branch = "added"
            /\ last'.ret = <<tasks[t].args[1]>>
            /\ stats'.total_hazards = stats.total_hazards + 1
            /\ Len(hazards') = Len(hazards) + 1
            /\ \A hazard_id \in HazardIds :
                  hazard_id = tasks[t].args[1] => Pending(u, hazard_id)'

\* The match stays what the second will find until it returns it, having
\* inserted nothing.
SecondReceives ==
    \A u \in Tasks, hazard_id \in HazardIds :
        Pending(u, hazard_id) =>
            \/ Pending(u, hazard_id)'
            \/ /\ tasks'[u].pc = "idle"
               /\ last'.branch = "existing"
               /\ last'.ret = <<hazard_id>>
               /\ UNCHANGED store

\* A hazard is inserted for a report without a match only.
InsertsUnmatched ==
    \A u \in Tasks :
        tasks[u].pc = "store" /\ tasks'[u].pc = "idle" => Matches(u) = {}

C33_ConcurrentDedup ==
    [][FirstInserts /\ SecondReceives /\ InsertsUnmatched]_vars

\* The first of two reports of one class within the radius of each other
\* has found no match and is about to insert while the second waits.
C33_Witness ==
    \E t, u \in Tasks : Race(t, u) /\ tasks[t].pc = "store"


(***************************************************************************)
(* C34.  After creation no operation changes a hazard's hazard_id,         *)
(* class_name, initial_confidence, location, bbox, detection_timestamp,    *)
(* severity or expires_at (no feedback, not even a confirmation, extends   *)
(* the expiry), and feedback_history is append-only: submit_feedback adds  *)
(* one record at the end and never alters, reorders or removes a record.   *)
(***************************************************************************)
\* What of a hazard is fixed at its creation.
Created(hazard) ==
    <<hazard.hazard_id, hazard.class_name, hazard.initial_confidence,
      hazard.location, hazard.bbox, hazard.detection_timestamp,
      hazard.severity, hazard.expires_at>>

\* seq is the beginning of longer, which has at most one element more.
Appended(seq, longer) ==
    /\ Len(longer) \in {Len(seq), Len(seq) + 1}
    /\ SubSeq(longer, 1, Len(seq)) = seq

FixedAtCreation ==
    \A i \in 1..Len(hazards), j \in 1..Len(hazards') :
        hazards'[j].hazard_id = hazards[i].hazard_id =>
            /\ Created(hazards'[j]) = Created(hazards[i])
            /\ Appended(hazards[i].feedback_history,
                        hazards'[j].feedback_history)
            /\ Len(hazards'[j].feedback_history)
                  # Len(hazards[i].feedback_history) =>
                     last'.op = "submit_feedback"

\* A stored hazard expires expiry_hours after its detection.
ExpiryFromDetection ==
    \A h \in Stored : h.expires_at = h.detection_timestamp + expiry_hours

C34_FixedAndAppendOnly == []ExpiryFromDetection /\ [][FixedAtCreation]_vars

\* A hazard confirmed after its expires_at, with two records.
C34_Witness ==
    \E h \in Stored :
        /\ now > h.expires_at
        /\ Len(h.feedback_history) >= 2
        /\ h.feedback_history[Len(h.feedback_history)].feedback_type = CONFIRM
        /\ h.last_updated > h.expires_at


(***************************************************************************)
(* C35.  Canonical entity: in every reachable state no two distinct stored *)
(* hazards of the same class_name that both have a status other than       *)
(* RESOLVED lie within proximity_radius_meters of each other, also after   *)
(* a RESOLVED hazard near which a replacement was created receives further *)
(* feedback.                                                               *)
(***************************************************************************)
\* The pairs of positions in the dict, the older first, of two hazards of
\* one class within the radius of each other.
Twins ==
    {pair \in (1..Len(hazards)) \X (1..Len(hazards)) :
        /\ pair[1] < pair[2]
        /\ hazards[pair[1]].class_name = hazards[pair[2]].class_name
        /\ _calculate_distance(hazards[pair[1]].location,
                               hazards[pair[2]].location)
              <= proximity_radius_meters}

Gone == stats.total_hazards - Len(hazards)

\* The step is a cleanup_expired.
Sweeps == last'.op = "cleanup_expired" /\ (last' # last \/ hazards' # hazards)

\* Gone is 0 at first and grows by what each cleanup_expired returns, and
\* in no other step; add_hazard leaves the dict as it is or with one hazard
\* more at its end.
GoneIsSwept ==
    /\ Gone' = Gone + (IF Sweeps THEN last'.count ELSE 0)
    /\ issued' # issued =>
          \/ hazards' = hazards
          \/ /\ Len(hazards') = Len(hazards) + 1
             /\ SubSeq(hazards', 1, Len(hazards)) = hazards
             /\ hazards'[Len(hazards')].hazard_id \notin hazard_ids

\* get_stats reports the size of the dict as active_hazards.
ActiveIsStored ==
    /\ Gone >= 0
    /\ stats.total_hazards = 0 => hazards = <<>>
    /\ last.op = "get_stats" =>
          /\ last.count = Len(hazards)
          /\ last.removed[1].total_hazards = last.count + Gone

C36_StoreAccounting == []ActiveIsStored /\ [][GoneIsSwept]_vars

\* Statistics read with one hazard stored and one removed by a sweep.
C36_Witness ==
    /\ last.op = "get_stats"
    /\ last.count = 1
    /\ Gone = 1


(***************************************************************************)
(* C37.  stats.verified_hazards is the number of distinct hazards that     *)
(* have ever been VERIFIED: a hazard enters VERIFIED at most once in its   *)
(* lifetime (having left VERIFIED it never re-enters it) and is counted at *)
(* most once, and the number of stored hazards that are VERIFIED never     *)
(* exceeds stats.verified_hazards.                                         *)
(***************************************************************************)
\* The number of records of the given types among the first k of a history.
CountTo(hazard, k, types) ==
    Cardinality({i \in 1..k : hazard.feedback_history[i].feedback_type \in types})

\* After one of its feedbacks the hazard had confirmations at the
\* verification threshold and denials below the denial threshold.
EverVerified(hazard) ==
    \E k \in 1..Len(hazard.feedback_history) :
        /\ CountTo(hazard, k, {CONFIRM}) >= verification_threshold
        /\ CountTo(hazard, k, {DENY, RESOLVE}) < denial_threshold

VerifiedCounted ==
    /\ stats.verified_hazards = Cardinality({h \in Stored : EverVerified(h)})
    /\ \A h \in Stored : h.status = VERIFIED => EverVerified(h)
    /\ Cardinality({h \in Stored : h.status = VERIFIED}) <= stats.verified_hazards

\* A hazard that becomes VERIFIED was never VERIFIED before, and the counter
\* grows by 1 in that step and in no other.
VerifiedOnce ==
    LET entering == {i \in 1..Len(hazards) :
                       /\ Len(hazards') = Len(hazards)
                       /\ hazards[i].status # VERIFIED
                       /\ hazards'[i].status = VERIFIED}
    IN  /\ \A i \in entering : ~EverVerified(hazards[i])
        /\ stats'.verified_hazards = stats.verified_hazards + Cardinality(entering)

HeldWhileInside == lock = (\E t \in Tasks : Inside(t))

\* The ways out of the methods under the lock.
Exits ==
    {"existing", "added", "not_found", "too_far", "already", "accepted",
     "raised", "swept", "found", "searched"}

\* A task that leaves its method leaves the lock free, by whichever exit.
ExitReleases ==
    \A t \in Tasks :
        Inside(t) /\ tasks'[t].pc = "idle" =>
            /\ last'.branch \in Exits
            /\ lock
            /\ ~lock'

\* Every call comes to its end.
Completes == \A t \in Tasks : (tasks[t].pc # "idle") ~> (tasks[t].pc = "idle")

C38_DeadlockFree == []HeldWhileInside /\ [][ExitReleases]_vars /\ Completes

\* A submit_feedback has left on the exception while the other task waits,
\* and the lock is free.
C38_Witness ==
    /\ last.branch = "raised"
    /\ ~lock
    /\ \E t \in Tasks : tasks[t].pc = "lock"
====
